---- MODULE Spec2Model ----
(***************************************************************************)
(* A model of the Ahad AI backend: the AhadAIService class                 *)
(* (backend/src/config/langchain.config.js) and the express handlers that  *)
(* drive it (the server file).  JavaScript runs one callback at a time, so *)
(* every action below is the code between two awaits of one async call:    *)
(* calls interleave only where the code awaits.                            *)
(*                                                                         *)
(* Texts are TLA+ strings and the string functions of the code             *)
(* (toLowerCase, split, includes, trim) are computed character by          *)
(* character.                                                              *)
(***************************************************************************)
EXTENDS Integers, Sequences, FiniteSets, TLC

VARIABLES
    isReady,              \* this.isReady
    llm,                  \* this.llm is set (TRUE) or null (FALSE)
    vectorStore,          \* this.vectorStore is set (TRUE) or null (FALSE)
    chromaInitialized,    \* this.chromaInitialized
    localKnowledge,       \* this.localKnowledge: sequence of documents
    conversationHistory,  \* this.conversationHistory: Map sessionId -> turns
    sessionContexts,      \* this.sessionContexts: Map sessionId -> context
    activeSessions,       \* the server's activeSessions Map
    initPc,               \* where the initialize() call of the server stands
    calls,                \* the async calls in flight: call id -> frame
    nextCall,             \* the id the next call gets; doubles as the clock
    returned,             \* the value the last step returned to a caller
    appended,             \* history variable: per session, every turn stored
                          \* in its log since the log was created
    evicted               \* history variable: per session, the id of its last
                          \* clearSession call

vars == <<isReady, llm, vectorStore, chromaInitialized, localKnowledge,
          conversationHistory, sessionContexts, activeSessions, initPc,
          calls, nextCall, returned, appended, evicted>>

service == <<isReady, llm, vectorStore, chromaInitialized>>

\* JavaScript's undefined / null, for a property that is absent
Undefined == "undefined"

(***************************************************************************)
(* Bounds of the model.                                                    *)
(***************************************************************************)
\* calls started in one behaviour; all of them may be in flight together
MaxCalls == 2
\* the same, in the specifications that draw a call's inputs from larger sets
MaxQueries == 1
\* requests a session has served before a behaviour of SpecHistory starts
MaxServed == 26
\* files a session holds before a behaviour of SpecFiles starts
MaxFiles == 3

(***************************************************************************)
(* String functions of JavaScript, computed on TLA+ strings.               *)
(***************************************************************************)
LowerChar(c) ==
    CASE c = "A" -> "a" [] c = "B" -> "b" [] c = "C" -> "c" [] c = "D" -> "d"
      [] c = "E" -> "e" [] c = "F" -> "f" [] c = "G" -> "g" [] c = "H" -> "h"
      [] c = "I" -> "i" [] c = "J" -> "j" [] c = "K" -> "k" [] c = "L" -> "l"
      [] c = "M" -> "m" [] c = "N" -> "n" [] c = "O" -> "o" [] c = "P" -> "p"
      [] c = "Q" -> "q" [] c = "R" -> "r" [] c = "S" -> "s" [] c = "T" -> "t"
      [] c = "U" -> "u" [] c = "V" -> "v" [] c = "W" -> "w" [] c = "X" -> "x"
      [] c = "Y" -> "y" [] c = "Z" -> "z" [] OTHER -> c

\* String.prototype.toLowerCase
RECURSIVE toLowerCase(_)
toLowerCase(s) ==
    IF Len(s) = 0 THEN ""
    ELSE IF Len(s) = 1 THEN LowerChar(s)
    ELSE toLowerCase(SubSeq(s, 1, Len(s) \div 2))
         \o toLowerCase(SubSeq(s, Len(s) \div 2 + 1, Len(s)))

\* String.prototype.includes
includes(s, w) ==
    \E i \in 1..(Len(s) - Len(w) + 1) : SubSeq(s, i, i + Len(w) - 1) = w

\* String.prototype.split(' '): the pieces between single spaces
RECURSIVE split(_)
split(s) ==
    IF ~includes(s, " ") THEN <<s>>
    ELSE LET i == CHOOSE k \in 1..Len(s) :
                      /\ SubSeq(s, k, k) = " "
                      /\ \A j \in 1..(k - 1) : SubSeq(s, j, j) # " "
         IN <<SubSeq(s, 1, i - 1)>> \o split(SubSeq(s, i + 1, Len(s)))

IsSpace(c) == c = " " \/ c = "\n" \/ c = "\t"

\* String.prototype.trim
RECURSIVE trimLeft(_)
trimLeft(s) ==
    IF Len(s) > 0 /\ IsSpace(SubSeq(s, 1, 1))
    THEN trimLeft(SubSeq(s, 2, Len(s))) ELSE s

RECURSIVE trimRight(_)
trimRight(s) ==
    IF Len(s) > 0 /\ IsSpace(SubSeq(s, Len(s), Len(s)))
    THEN trimRight(SubSeq(s, 1, Len(s) - 1)) ELSE s

trim(s) == trimRight(trimLeft(s))

\* Array.prototype.join
RECURSIVE join(_, _)
join(seq, sep) ==
    IF Len(seq) = 0 THEN ""
    ELSE IF Len(seq) = 1 THEN seq[1]
    ELSE seq[1] \o sep \o join(Tail(seq), sep)

\* Array.prototype.slice(0, n)
sliceFirst(seq, n) == SubSeq(seq, 1, IF Len(seq) < n THEN Len(seq) ELSE n)

\* Array.prototype.slice(-n)
sliceLast(seq, n) ==
    SubSeq(seq, (IF Len(seq) > n THEN Len(seq) - n ELSE 0) + 1, Len(seq))

\* the tokens of a query: lowercased, split on spaces, longer than 2
queryWords(query) ==
    SelectSeq(split(toLowerCase(query)), LAMBDA w : Len(w) > 2)

(***************************************************************************)
(* Maps (JavaScript Map objects): functions on the set of their keys.      *)
(***************************************************************************)
EmptyMap == [k \in {} |-> Undefined]

has(m, k) == k \in DOMAIN m

set(m, k, v) == [x \in DOMAIN m \cup {k} |-> IF x = k THEN v ELSE m[x]]

delete(m, k) == [x \in DOMAIN m \ {k} |-> m[x]]

\* { ...defaults, ...metadata }: the later object's properties win
spread(defaults, metadata) ==
    [k \in DOMAIN defaults \cup DOMAIN metadata |->
        IF k \in DOMAIN metadata THEN metadata[k] ELSE defaults[k]]

(***************************************************************************)
(* The data of the service.                                                *)
(***************************************************************************)
\* this.languageConfig.  The Hindi, Arabic and Telugu instruction texts are
\* written in their scripts in the source; here each is named in ASCII.
languageConfig ==
    [en |-> [name |-> "English",
             general |-> "Provide helpful, accurate responses in English.",
             image |-> "Describe the image content in detail.",
             document |-> "Analyze the document and extract key information.",
             file |-> "Reference uploaded files when relevant."],
     hi |-> [name |-> "Hindi",
             general |-> "<hi: general instruction>",
             image |-> "<hi: image instruction>",
             document |-> "<hi: document instruction>",
             file |-> "<hi: file instruction>"],
     ar |-> [name |-> "Arabic",
             general |-> "<ar: general instruction>",
             image |-> "<ar: image instruction>",
             document |-> "<ar: document instruction>",
             file |-> "<ar: file instruction>"],
     te |-> [name |-> "Telugu",
             general |-> "<te: general instruction>",
             image |-> "<te: image instruction>",
             document |-> "<te: document instruction>",
             file |-> "<te: file instruction>"]]

\* what a property read of an object literal yields for a key the literal
\* does not define but Object.prototype does: obj["constructor"] is the
\* function Object, whose name is "Object" and which has no instructions
InheritedProperties == [constructor |-> [name |-> "Object"]]

\* the text of the function Object, standing for the function itself
ObjectFunction == "function Object() { [native code] }"

\* this.languageConfig[language] || this.languageConfig['en']
langConfigOf(language) ==
    IF language \in DOMAIN languageConfig
    THEN languageConfig[language]
    ELSE IF language \in DOMAIN InheritedProperties
    THEN InheritedProperties[language]
    ELSE languageConfig["en"]

AllLanguages == <<"en", "hi", "ar", "te">>

\* the five documents initializeLocalStorage loads
SystemKnowledge ==
    << [content |-> "Ahad AI is a multilingual assistant supporting English, Hindi, Arabic, and Telugu",
        metadata |-> [source |-> "system", type |-> "multilingual", languages |-> AllLanguages]],
       [content |-> "The assistant can analyze uploaded files including images, PDFs, and documents in any supported language",
        metadata |-> [source |-> "system", type |-> "file_support", languages |-> AllLanguages]],
       [content |-> "For image analysis, describe visual elements, colors, objects, text, and overall composition",
        metadata |-> [source |-> "system", type |-> "image_analysis", languages |-> AllLanguages]],
       [content |-> "For document analysis, summarize content, extract key points, identify themes, and answer specific questions",
        metadata |-> [source |-> "system", type |-> "document_analysis", languages |-> AllLanguages]],
       [content |-> "The assistant maintains conversation context and can remember uploaded files within a session",
        metadata |-> [source |-> "system", type |-> "memory", languages |-> AllLanguages]] >>

\* the canned texts of fallbackResponse; the Hindi, Arabic and Telugu ones
\* are written in their scripts in the source and named in ASCII here
cannedResponses(query) ==
    [en |-> "I understand you're asking: \"" \o query \o "\". As Ahad AI, I can help you analyze uploaded files and answer questions about them. If you've uploaded files, please make sure they were successfully processed.",
     hi |-> "<hi: canned response to \"" \o query \o "\">",
     ar |-> "<ar: canned response to \"" \o query \o "\">",
     te |-> "<te: canned response to \"" \o query \o "\">"]

\* a faulty fallbackResponse, which answers in English whatever the language
fallbackResponseEnglish(query, language) ==
    [text |-> cannedResponses(query)["en"],
     sources |-> <<"fallback">>,
     confidence |-> 6,
     language |-> language]

\* fallbackResponse(query, language): no sentiment and no intent property
fallbackResponse(query, language) ==
    [text |-> IF language \in DOMAIN cannedResponses(query)
              THEN cannedResponses(query)[language]
              ELSE IF language \in DOMAIN InheritedProperties
              THEN ObjectFunction
              ELSE cannedResponses(query)["en"],
     sources |-> <<"fallback">>,
     confidence |-> 6,
     language |-> language]

\* a faulty detectIntent, which looks for the image keywords first
detectIntentImageFirst(text, language) ==
    LET t == toLowerCase(text) IN
    IF includes(t, "image") \/ includes(t, "picture") \/ includes(t, "photo")
    THEN "image_analysis"
    ELSE IF includes(t, "upload") \/ includes(t, "file") \/ includes(t, "attach")
    THEN "file_upload"
    ELSE IF includes(t, "document") \/ includes(t, "pdf") \/ includes(t, "word")
    THEN "document_analysis"
    ELSE IF includes(t, "search") \/ includes(t, "find")
    THEN "search"
    ELSE IF includes(t, "analyze") \/ includes(t, "explain") \/ includes(t, "describe")
    THEN "analysis"
    ELSE IF includes(t, "calculate") \/ includes(t, "math")
    THEN "calculate"
    ELSE IF includes(t, "translate") \/ includes(t, "language")
    THEN "translate"
    ELSE IF includes(t, "hello") \/ includes(t, "hi")
    THEN "greeting"
    ELSE IF includes(t, "help")
    THEN "help"
    ELSE "general"

\* detectIntent(text, language): the first keyword group that matches.  The
\* greeting group also holds three words in Devanagari, Arabic and Telugu
\* script, which no text of this model contains.
detectIntent(text, language) ==
    LET t == toLowerCase(text) IN
    IF includes(t, "upload") \/ includes(t, "file") \/ includes(t, "attach")
    THEN "file_upload"
    ELSE IF includes(t, "image") \/ includes(t, "picture") \/ includes(t, "photo")
    THEN "image_analysis"
    ELSE IF includes(t, "document") \/ includes(t, "pdf") \/ includes(t, "word")
    THEN "document_analysis"
    ELSE IF includes(t, "search") \/ includes(t, "find")
    THEN "search"
    ELSE IF includes(t, "analyze") \/ includes(t, "explain") \/ includes(t, "describe")
    THEN "analysis"
    ELSE IF includes(t, "calculate") \/ includes(t, "math")
    THEN "calculate"
    ELSE IF includes(t, "translate") \/ includes(t, "language")
    THEN "translate"
    ELSE IF includes(t, "hello") \/ includes(t, "hi")
    THEN "greeting"
    ELSE IF includes(t, "help")
    THEN "help"
    ELSE "general"

\* a faulty analyzeSentiment, whose thresholds are inclusive
analyzeSentimentInclusive(analyzer, language) ==
    IF language # "en" THEN "neutral"
    ELSE IF analyzer.threw THEN "neutral"
    ELSE IF analyzer.score >= 20 THEN "positive"
    ELSE IF analyzer.score <= -20 THEN "negative"
    ELSE "neutral"

\* analyzeSentiment(text, language): analyzer is what getSentiment of the
\* `natural` package does with the text: it throws, or returns a score
\* (in hundredths here)
analyzeSentiment(analyzer, language) ==
    IF language # "en" THEN "neutral"
    ELSE IF analyzer.threw THEN "neutral"
    ELSE IF analyzer.score > 20 THEN "positive"
    ELSE IF analyzer.score < -20 THEN "negative"
    ELSE "neutral"

\* k to the power i
RECURSIVE pow(_, _)
pow(k, i) == IF i = 0 THEN 1 ELSE k * pow(k, i - 1)

\* formatFileSize(bytes): the size in the largest unit that fits, with at
\* most two decimals (parseFloat drops trailing zeros)
formatFileSize(bytes) ==
    IF bytes = 0 THEN "0 Bytes"
    ELSE LET sizes == <<"Bytes", "KB", "MB", "GB">>
             i == CHOOSE j \in 0..10 : pow(1024, j) <= bytes /\ bytes < pow(1024, j + 1)
             h == (2 * 100 * bytes + pow(1024, i)) \div (2 * pow(1024, i))
             whole == h \div 100
             frac == h % 100
             digits == IF frac = 0 THEN ToString(whole)
                       ELSE IF frac % 10 = 0
                       THEN ToString(whole) \o "." \o ToString(frac \div 10)
                       ELSE ToString(whole) \o "." \o
                            (IF frac < 10 THEN "0" ELSE "") \o ToString(frac)
         IN digits \o " " \o (IF i + 1 <= Len(sizes) THEN sizes[i + 1] ELSE Undefined)

\* the header block processWithRAG builds for one new file; a file without
\* content (null or empty) adds nothing
RECURSIVE fileContextOf(_)
fileContextOf(newFiles) ==
    IF Len(newFiles) = 0 THEN ""
    ELSE LET file == Head(newFiles) IN
         (IF file.content # ""
          THEN "\n\n=== File: " \o file.filename \o " ===\n"
               \o "Type: " \o file.type \o "\n"
               \o "Size: " \o formatFileSize(file.size) \o "\n"
               \o "Content: " \o file.content \o "\n"
          ELSE "")
         \o fileContextOf(Tail(newFiles))

(***************************************************************************)
(* Retrieval (ragQuery, searchInSessionFiles).                             *)
(***************************************************************************)
\* a faulty local search, which cuts the store to 3 documents before it
\* filters them
localSearchCutFirst(knowledge, query) ==
    LET words == queryWords(query)
        matches(doc) ==
            Len(words) = 0
            \/ \E i \in 1..Len(words) : includes(toLowerCase(doc.content), words[i])
        found == SelectSeq(sliceFirst(knowledge, 3), matches)
    IN [i \in 1..Len(found) |->
           [pageContent |-> found[i].content, metadata |-> found[i].metadata]]

\* a faulty local search, which keeps the last 3 matching documents
localSearchLastThree(knowledge, query) ==
    LET words == queryWords(query)
        matches(doc) ==
            Len(words) = 0
            \/ \E i \in 1..Len(words) : includes(toLowerCase(doc.content), words[i])
        found == sliceLast(SelectSeq(knowledge, matches), 3)
    IN [i \in 1..Len(found) |->
           [pageContent |-> found[i].content, metadata |-> found[i].metadata]]

\* ragQuery, step 1: the first 3 documents of the store that contain a query
\* word, or the first 3 documents when the query has no word
localSearch(knowledge, query) ==
    LET words == queryWords(query)
        matches(doc) ==
            Len(words) = 0
            \/ \E i \in 1..Len(words) : includes(toLowerCase(doc.content), words[i])
        found == sliceFirst(SelectSeq(knowledge, matches), 3)
    IN [i \in 1..Len(found) |->
           [pageContent |-> found[i].content, metadata |-> found[i].metadata]]

\* the files of the session that contain a query word, in file order
RECURSIVE matchingFiles(_, _)
matchingFiles(words, sessionFiles) ==
    IF Len(sessionFiles) = 0 THEN <<>>
    ELSE LET file == Head(sessionFiles)
             matches == Cardinality({i \in 1..Len(words) :
                            includes(toLowerCase(file.content), words[i])})
         IN (IF file.content # "" /\ matches > 0
             THEN << [pageContent |-> "From uploaded file \"" \o file.filename
                                      \o "\":\n"
                                      \o SubSeq(file.content, 1,
                                           IF Len(file.content) < 1000
                                           THEN Len(file.content) ELSE 1000)
                                      \o "...",
                      metadata |-> [source |-> "session_file",
                                    filename |-> file.filename,
                                    type |-> file.type,
                                    matchScore |-> <<matches, Len(words)>>]] >>
             ELSE <<>>)
            \o matchingFiles(words, Tail(sessionFiles))

\* searchInSessionFiles(query, sessionFiles): matchScore is the pair
\* <<matches, queryWords.length>> of the quotient the code computes
searchInSessionFiles(query, sessionFiles) ==
    LET words == queryWords(query) IN
    IF Len(words) = 0 THEN <<>>
    ELSE sliceFirst(matchingFiles(words, sessionFiles), 2)

\* ragQuery, step 3: the passages of the session's files, read from the
\* session registry as it stands when the step runs
sessionFileDocs(contexts, context, query) ==
    IF "sessionId" \in DOMAIN context /\ has(contexts, context.sessionId)
    THEN IF Len(contexts[context.sessionId].files) > 0
         THEN searchInSessionFiles(query, contexts[context.sessionId].files)
         ELSE <<>>
    ELSE <<>>

\* relevantDocs.map(d => d.pageContent)
pageContents(docs) == [i \in 1..Len(docs) |-> docs[i].pageContent]

(***************************************************************************)
(* The prompts (ragQuery, getBasicResponse).                               *)
(***************************************************************************)
UpperChar(c) ==
    CASE c = "a" -> "A" [] c = "b" -> "B" [] c = "c" -> "C" [] c = "d" -> "D"
      [] c = "e" -> "E" [] c = "f" -> "F" [] c = "g" -> "G" [] c = "h" -> "H"
      [] c = "i" -> "I" [] c = "j" -> "J" [] c = "k" -> "K" [] c = "l" -> "L"
      [] c = "m" -> "M" [] c = "n" -> "N" [] c = "o" -> "O" [] c = "p" -> "P"
      [] c = "q" -> "Q" [] c = "r" -> "R" [] c = "s" -> "S" [] c = "t" -> "T"
      [] c = "u" -> "U" [] c = "v" -> "V" [] c = "w" -> "W" [] c = "x" -> "X"
      [] c = "y" -> "Y" [] c = "z" -> "Z" [] OTHER -> c

\* String.prototype.toUpperCase
RECURSIVE toUpperCase(_)
toUpperCase(s) ==
    IF Len(s) = 0 THEN ""
    ELSE IF Len(s) = 1 THEN UpperChar(s)
    ELSE toUpperCase(SubSeq(s, 1, Len(s) \div 2))
         \o toUpperCase(SubSeq(s, Len(s) \div 2 + 1, Len(s)))

\* the enhanced prompt of ragQuery
enhancedPrompt(query, language, relevantDocs, context) ==
    LET langConfig == langConfigOf(language)
        code == toUpperCase(language)
        q == toLowerCase(query)
        contextText ==
            IF Len(relevantDocs) > 0
            THEN join(pageContents(relevantDocs), "\n\n")
            ELSE "No specific context available. Use your general knowledge."
    IN "You are Ahad AI, an intelligent multilingual assistant.\n\n"
       \o "IMPORTANT: You MUST respond EXCLUSIVELY in " \o langConfig.name
       \o " language (" \o code \o ")!\n\n"
       \o "AVAILABLE LANGUAGES: English (en), Hindi (hi), Arabic (ar), Telugu (te)\n"
       \o "CURRENT RESPONSE LANGUAGE: " \o langConfig.name \o " (" \o code \o ")\n\n"
       \o "CONTEXT INFORMATION:\n" \o contextText
       \o (IF "fileContext" \in DOMAIN context /\ trim(context.fileContext) # ""
           THEN "\n\nUPLOADED FILES INFORMATION:\n" \o context.fileContext \o "\n"
           ELSE "")
       \o (IF "files" \in DOMAIN context /\ Len(context.files) > 0
           THEN "\nCURRENT SESSION HAS " \o ToString(Len(context.files))
                \o " UPLOADED FILE(S)."
           ELSE "")
       \o (IF "history" \in DOMAIN context /\ context.history # ""
              /\ trim(context.history) # "No previous conversation"
           THEN "\n\nPREVIOUS CONVERSATION:\n" \o context.history
           ELSE "")
       \o "\n\nUSER QUERY: " \o query
       \o "\n\nLANGUAGE-SPECIFIC INSTRUCTIONS:\n"
       \o "1. Respond ONLY in " \o langConfig.name \o " (" \o code \o ")\n"
       \o "2. " \o langConfig.general \o "\n"
       \o (IF includes(q, "image") \/ includes(q, "picture") \/ includes(q, "photo")
           THEN "3. " \o langConfig.image \o "\n"
                \o "   - Describe visual elements, colors, objects, text\n"
                \o "   - Mention composition and overall impression\n"
                \o "   - If text is visible, read and interpret it\n"
           ELSE "")
       \o (IF includes(q, "document") \/ includes(q, "file") \/ includes(q, "pdf")
           THEN "3. " \o langConfig.document \o "\n"
                \o "   - Summarize key points\n"
                \o "   - Extract important information\n"
                \o "   - Answer specific questions about content\n"
           ELSE "")
       \o (IF "files" \in DOMAIN context /\ Len(context.files) > 0
           THEN "3. " \o langConfig.file \o "\n"
           ELSE "")
       \o "\nGENERAL GUIDELINES:\n"
       \o "- Be helpful, friendly, and informative\n"
       \o "- If context is relevant, use it\n"
       \o "- If no context, use general knowledge\n"
       \o "- Maintain conversation flow\n"
       \o "- Keep responses concise but complete\n"
       \o "\nRESPONSE IN " \o code \o ":\n"

\* the prompt of getBasicResponse
basicPrompt(query, language) ==
    LET langConfig == langConfigOf(language) IN
    "User asked in " \o langConfig.name \o ": \"" \o query \o "\"\n\n"
    \o "Respond in " \o langConfig.name
    \o " language only as Ahad AI, a helpful multilingual assistant.\n"
    \o "Be friendly, informative, and helpful.\n"
    \o "If the user is asking about uploaded files but you don't have file context, ask them to upload the file first.\n\n"
    \o "Response in " \o langConfig.name \o ":"

(***************************************************************************)
(* The conversation log and the knowledge store.                           *)
(***************************************************************************)
\* storeConversation keeps the last HistoryCap turns
HistoryCap == 50

\* getConversationHistory reads the last HistoryLimit turns
HistoryLimit == 10

\* one line of the history text; an assistant turn has no files property,
\* which is files = 0 here (both are falsy)
historyLine(msg) ==
    msg.role \o ": " \o msg.content
    \o (IF msg.files # 0
        THEN " (uploaded " \o ToString(msg.files) \o " file(s))" ELSE "")

\* a faulty getConversationHistory, which reads the oldest turns of the log
getConversationHistoryOldest(history, sessionId) ==
    IF ~has(history, sessionId)
    THEN "No previous conversation in this session."
    ELSE LET recentHistory == sliceFirst(history[sessionId], HistoryLimit)
         IN join([i \in 1..Len(recentHistory) |-> historyLine(recentHistory[i])],
                 "\n")

\* getConversationHistory(sessionId, limit = 10)
getConversationHistory(history, sessionId) ==
    IF ~has(history, sessionId)
    THEN "No previous conversation in this session."
    ELSE LET recentHistory == sliceLast(history[sessionId], HistoryLimit)
         IN join([i \in 1..Len(recentHistory) |-> historyLine(recentHistory[i])],
                 "\n")

\* a faulty storeConversation, which drops the newest turn of a full log
storeConversationKeepOldest(history, sessionId, message) ==
    LET created == IF has(history, sessionId) THEN history
                   ELSE set(history, sessionId, <<>>)
        pushed == Append(created[sessionId], message)
    IN set(created, sessionId, sliceFirst(pushed, HistoryCap))

\* a faulty storeConversation, which keeps one log for all the sessions
storeConversationOneLog(history, sessionId, message) ==
    LET created == IF has(history, "s1") THEN history
                   ELSE set(history, "s1", <<>>)
        pushed == Append(created["s1"], message)
    IN set(created, "s1",
           IF Len(pushed) > HistoryCap THEN sliceLast(pushed, HistoryCap)
           ELSE pushed)

\* storeConversation(sessionId, message): the Map after the call
storeConversation(history, sessionId, message) ==
    LET created == IF has(history, sessionId) THEN history
                   ELSE set(history, sessionId, <<>>)
        pushed == Append(created[sessionId], message)
    IN set(created, sessionId,
           IF Len(pushed) > HistoryCap THEN sliceLast(pushed, HistoryCap)
           ELSE pushed)

\* the document addToKnowledgeBase pushes
knowledgeDocument(text, source, metadata, now) ==
    [content |-> text,
     metadata |-> spread([source |-> source,
                          type |-> IF "type" \in DOMAIN metadata
                                   THEN metadata.type ELSE "general",
                          timestamp |-> now,
                          languages |-> IF "languages" \in DOMAIN metadata
                                        THEN metadata.languages ELSE <<"en">>],
                         metadata)]

(***************************************************************************)
(* The inputs and the answers of the collaborators.                        *)
(***************************************************************************)
SessionIds == {"s1"}

Messages == {"what was the total"}

Languages == {"en"}

\* "hello" occurs in no document of the store
QueryMessages == {"what was the total", "hello"}

\* "fr" has no entry in languageConfig and no canned response
QueryLanguages == {"en", "hi", "fr"}

\* language codes outside en, hi, ar, te: "constructor" names a property
\* that every object literal inherits
UnsupportedLanguages == {"fr", "constructor"}

\* a FileContext as the file processor returns it; content is "" when no
\* text was extracted (null in the source: both are falsy)
InvoiceFile ==
    [filename |-> "invoice.txt", type |-> "document", size |-> 18,
     content |-> "invoice total $500"]

NewFileLists == {<<>>, <<InvoiceFile>>}

\* a file that holds three words of the query "what was the total"
ReportFile ==
    [filename |-> "report.txt", type |-> "document", size |-> 16,
     content |-> "the total was 20"]

\* an image: the file processor extracts no text from it
ScanFile ==
    [filename |-> "scan.png", type |-> "image", size |-> 2048, content |-> ""]

SessionFiles == {InvoiceFile, ReportFile, ScanFile}

\* the lists of at most n session files
FileLists(n) == UNION {[1..k -> SessionFiles] : k \in 0..n}

\* "is it ok" has no word longer than 2
FileQueries == {"what was the total", "is it ok"}

\* what llm.invoke answers: response.content, or "error" when it throws or
\* times out
LlmReply == "The total is $500."

LlmOutcomes == {"error", LlmReply}

\* a document of the vector store
VectorDoc ==
    [pageContent |-> "Totals are listed at the end of an invoice",
     metadata |-> [source |-> "chroma"]]

\* what vectorStore.similaritySearch(query, 2) answers: it throws, or
\* returns documents
VectorOutcomes ==
    {[threw |-> TRUE, docs |-> <<>>], [threw |-> FALSE, docs |-> <<>>],
     [threw |-> FALSE, docs |-> <<VectorDoc>>]}

\* what the sentiment analyzer does with a message
SentimentOutcomes == {[threw |-> FALSE, score |-> 0]}

\* the texts of addToKnowledgeBase calls
KnowledgeTexts == {"The total budget is approved", "Invoices are due monthly"}

\* the sources of addToKnowledgeBase calls: the default of the method and
\* the default of the ingest endpoint
KnowledgeSources == {"user", "manual"}

(***************************************************************************)
(* The state after construction (the constructor of AhadAIService, and the *)
(* server's empty activeSessions).                                         *)
(***************************************************************************)
NoReturn == [call |-> 0, op |-> "none", value |-> Undefined]

Init ==
    /\ isReady = FALSE
    /\ llm = FALSE
    /\ vectorStore = FALSE
    /\ chromaInitialized = FALSE
    /\ localKnowledge = <<>>
    /\ conversationHistory = EmptyMap
    /\ sessionContexts = EmptyMap
    /\ activeSessions = EmptyMap
    /\ initPc = "new"
    /\ calls = EmptyMap
    /\ nextCall = 1
    /\ returned = NoReturn
    /\ appended = EmptyMap
    /\ evicted = EmptyMap

\* a new call may start
CanStart == nextCall <= MaxCalls

(***************************************************************************)
(* initialize(): the server starts it and does not wait for it.            *)
(***************************************************************************)
\* initialize, up to the heartbeat fetch of initializeChromaDB
InitializeStart ==
    /\ initPc = "new"
    /\ llm' = TRUE
    /\ initPc' = "heartbeat"
    /\ returned' = NoReturn
    /\ UNCHANGED <<isReady, vectorStore, chromaInitialized, localKnowledge,
                   conversationHistory, sessionContexts, activeSessions,
                   calls, nextCall, appended, evicted>>

\* initializeLocalStorage replaces the store; then isReady = true
InitializeLocalStorage ==
    /\ localKnowledge' = SystemKnowledge
    /\ isReady' = TRUE
    /\ initPc' = "done"

\* a faulty step, in which an error of the heartbeat fetch ends initialize
\* without the knowledge store and without isReady
HeartbeatReturnGivesUp(outcome) ==
    /\ initPc = "heartbeat"
    /\ IF outcome = "ok"
       THEN /\ initPc' = "collection"
            /\ UNCHANGED <<isReady, localKnowledge, vectorStore>>
       ELSE IF outcome = "error"
       THEN /\ initPc' = "done"
            /\ UNCHANGED <<isReady, localKnowledge, vectorStore>>
       ELSE /\ UNCHANGED vectorStore
            /\ InitializeLocalStorage
    /\ returned' = NoReturn
    /\ UNCHANGED <<llm, chromaInitialized, conversationHistory,
                   sessionContexts, activeSessions, calls, nextCall,
                   appended, evicted>>

\* the heartbeat answers: not ok or an error skips the vector store
HeartbeatReturn(outcome) ==
    /\ initPc = "heartbeat"
    /\ IF outcome = "ok"
       THEN /\ initPc' = "collection"
            /\ UNCHANGED <<isReady, localKnowledge, vectorStore>>
       ELSE /\ vectorStore' = (IF outcome = "error" THEN FALSE ELSE vectorStore)
            /\ InitializeLocalStorage
    /\ returned' = NoReturn
    /\ UNCHANGED <<llm, chromaInitialized, conversationHistory,
                   sessionContexts, activeSessions, calls, nextCall,
                   appended, evicted>>

\* Chroma.fromExistingCollection answers
CollectionReturn(outcome) ==
    /\ initPc = "collection"
    /\ IF outcome = "ok"
       THEN vectorStore' = TRUE /\ chromaInitialized' = TRUE
       ELSE vectorStore' = FALSE /\ UNCHANGED chromaInitialized
    /\ InitializeLocalStorage
    /\ returned' = NoReturn
    /\ UNCHANGED <<llm, conversationHistory, sessionContexts, activeSessions,
                   calls, nextCall, appended, evicted>>

\* a constructor of initialize throws (lines 140-143): the catch block
\* runs initializeFallbackLLM, which sets the llm or logs its failure, and
\* sets isReady; the knowledge store is not loaded
InitializeCatch(llmSet) ==
    /\ initPc = "new"
    /\ llm' = llmSet
    /\ isReady' = TRUE
    /\ initPc' = "done"
    /\ returned' = NoReturn
    /\ UNCHANGED <<vectorStore, chromaInitialized, localKnowledge,
                   conversationHistory, sessionContexts, activeSessions,
                   calls, nextCall, appended, evicted>>

(***************************************************************************)
(* processWithRAG(options) and the ragQuery it calls.                      *)
(***************************************************************************)
\* the frame of a processWithRAG call that has just read the history.  The
\* last seven fields are history fields, which the code does not hold: how
\* many turns had been stored in the log whose history was read, was the
\* service ready when ragQuery ran, how many llm.invoke calls failed,
\* how many documents the vector store and the session files contributed,
\* the passages given to the llm, and the size of the knowledge store when
\* it was searched
ragFrame(handler, message, language, sessionId, analyze, files, newFiles) ==
    [op |-> "processWithRAG", handler |-> handler, pc |-> "history",
     message |-> message, language |-> language, sessionId |-> sessionId,
     analyzeSentiment |-> analyze, files |-> files, newFiles |-> newFiles,
     history |-> getConversationHistory(conversationHistory, sessionId),
     ctxLive |-> FALSE, ctxFiles |-> <<>>,
     context |-> EmptyMap, relevantDocs |-> <<>>, sources |-> <<>>,
     prompt |-> "", invokes |-> 0, ragResult |-> Undefined,
     seenTurns |-> IF has(appended, sessionId) THEN Len(appended[sessionId])
                   ELSE 0,
     wasReady |-> FALSE, llmErrors |-> 0, vectorHits |-> 0, fileHits |-> 0,
     passages |-> <<>>, searched |-> 0, vectorAsked |-> FALSE,
     vectorThrew |-> FALSE, vectorRequest |-> <<>>]

\* a faulty ragQuery, which declares local_knowledge only when a passage
\* was retrieved
ragInvokeTagsOnMatch(frame, contexts, relevantDocs, sources) ==
    LET fileDocs == sessionFileDocs(contexts, frame.context, frame.message)
        docs == relevantDocs \o fileDocs
        tags == (IF Len(fileDocs) > 0 THEN Append(sources, "session_files")
                 ELSE sources)
                \o (IF Len(docs) > 0 THEN <<"local_knowledge">> ELSE <<>>)
    IN [frame EXCEPT
           !.pc = "llm",
           !.relevantDocs = docs,
           !.sources = tags,
           !.invokes = 1,
           !.fileHits = Len(fileDocs),
           !.passages = pageContents(docs),
           !.prompt = enhancedPrompt(frame.message, frame.language, docs,
                                     frame.context)]

\* a faulty ragQuery, which puts the passages of the session files first
ragInvokeFilesFirst(frame, contexts, relevantDocs, sources) ==
    LET fileDocs == sessionFileDocs(contexts, frame.context, frame.message)
        docs == fileDocs \o relevantDocs
        tags == (IF Len(fileDocs) > 0 THEN Append(sources, "session_files")
                 ELSE sources) \o <<"local_knowledge">>
    IN [frame EXCEPT
           !.pc = "llm",
           !.relevantDocs = docs,
           !.sources = tags,
           !.invokes = 1,
           !.fileHits = Len(fileDocs),
           !.passages = pageContents(docs),
           !.prompt = enhancedPrompt(frame.message, frame.language, docs,
                                     frame.context)]

\* ragQuery from step 3 to llm.invoke: the session files are searched in
\* the registry given (the one of the moment), the prompt is built from the
\* context captured when ragQuery was called.  Reading
\* langConfig.instructions.general throws when langConfig has no
\* instructions: the catch block calls getBasicResponse, which invokes the
\* llm with the basic prompt
ragInvoke(frame, contexts, relevantDocs, sources) ==
    LET fileDocs == sessionFileDocs(contexts, frame.context, frame.message)
        docs == relevantDocs \o fileDocs
        tags == (IF Len(fileDocs) > 0 THEN Append(sources, "session_files")
                 ELSE sources) \o <<"local_knowledge">>
    IN IF "general" \in DOMAIN langConfigOf(frame.language)
       THEN [frame EXCEPT
                !.pc = "llm",
                !.relevantDocs = docs,
                !.sources = tags,
                !.invokes = 1,
                !.fileHits = Len(fileDocs),
                !.passages = pageContents(docs),
                !.prompt = enhancedPrompt(frame.message, frame.language, docs,
                                          frame.context)]
       ELSE [frame EXCEPT
                !.pc = "retry",
                !.relevantDocs = docs,
                !.sources = tags,
                !.invokes = 1,
                !.fileHits = Len(fileDocs),
                !.passages = pageContents(docs),
                !.prompt = basicPrompt(frame.message, frame.language)]

\* a faulty ragQuery, which does not look at isReady
ragQueryIgnoresReady(frame, contexts) ==
    IF ~llm
    THEN [frame EXCEPT
             !.pc = "storeUser",
             !.ragResult = fallbackResponse(frame.message, frame.language)]
    ELSE LET relevantDocs == localSearch(localKnowledge, frame.message)
             ready == [frame EXCEPT !.wasReady = TRUE,
                                    !.searched = Len(localKnowledge)] IN
         IF vectorStore /\ chromaInitialized
         THEN [ready EXCEPT !.pc = "vector", !.relevantDocs = relevantDocs,
                            !.vectorAsked = TRUE,
                            !.vectorRequest = <<[query |-> frame.message,
                                                 limit |-> 2]>>]
         ELSE ragInvoke(ready, contexts, relevantDocs, <<>>)

\* ragQuery from its start to its first await, or to its return when the
\* service is not ready
ragQuery(frame, contexts) ==
    IF ~isReady \/ ~llm
    THEN [frame EXCEPT
             !.pc = "storeUser",
             !.ragResult = fallbackResponse(frame.message, frame.language)]
    ELSE LET relevantDocs == localSearch(localKnowledge, frame.message)
             ready == [frame EXCEPT !.wasReady = TRUE,
                                    !.searched = Len(localKnowledge)] IN
         IF vectorStore /\ chromaInitialized
         THEN [ready EXCEPT !.pc = "vector", !.relevantDocs = relevantDocs,
                            !.vectorAsked = TRUE,
                            !.vectorRequest = <<[query |-> frame.message,
                                                 limit |-> 2]>>]
         ELSE ragInvoke(ready, contexts, relevantDocs, <<>>)

\* a direct call of processWithRAG, up to the await of getConversationHistory
ProcessWithRAG(message, language, sessionId, analyze, newFiles) ==
    /\ CanStart
    /\ calls' = set(calls, nextCall,
                    ragFrame("none", message, language, sessionId, analyze,
                             Len(newFiles), newFiles))
    /\ nextCall' = nextCall + 1
    /\ returned' = NoReturn
    /\ UNCHANGED <<service, localKnowledge, conversationHistory,
                   sessionContexts, activeSessions, initPc, appended, evicted>>

\* a faulty update, which replaces the files and the file context of the
\* session by those of the call
updatedContextReplaces(contexts, frame, now) ==
    [files |-> frame.newFiles, fileContext |-> fileContextOf(frame.newFiles),
     lastUpdated |-> now, language |-> frame.language]

\* a faulty update, which sets lastUpdated also when the call has no new file
updatedContextAlwaysStamps(contexts, frame, now) ==
    LET sessionContext ==
            IF has(contexts, frame.sessionId) THEN contexts[frame.sessionId]
            ELSE [files |-> <<>>, fileContext |-> "", lastUpdated |-> now,
                  language |-> frame.language]
    IN [sessionContext EXCEPT
           !.language = frame.language,
           !.files = @ \o frame.newFiles,
           !.fileContext = @ \o fileContextOf(frame.newFiles),
           !.lastUpdated = now]

\* the session context after lines 262-298: created if absent, language
\* set, the new files and their header blocks appended
updatedContext(contexts, frame, now) ==
    LET sessionContext ==
            IF has(contexts, frame.sessionId) THEN contexts[frame.sessionId]
            ELSE [files |-> <<>>, fileContext |-> "", lastUpdated |-> now,
                  language |-> frame.language]
        withLanguage == [sessionContext EXCEPT !.language = frame.language]
    IN IF Len(frame.newFiles) > 0
       THEN [withLanguage EXCEPT
                !.files = @ \o frame.newFiles,
                !.fileContext = @ \o fileContextOf(frame.newFiles),
                !.lastUpdated = now]
       ELSE withLanguage

\* processWithRAG from the session context to the first await of ragQuery
UpdateSession(c) ==
    /\ c \in DOMAIN calls
    /\ calls[c].op = "processWithRAG" /\ calls[c].pc = "history"
    /\ LET frame == calls[c]
           sessionContext == updatedContext(sessionContexts, frame, c)
           contexts == set(sessionContexts, frame.sessionId, sessionContext)
           called == [frame EXCEPT
                         !.ctxLive = TRUE,
                         !.context = [history |-> frame.history,
                                      fileContext |-> sessionContext.fileContext,
                                      sessionId |-> frame.sessionId,
                                      files |-> sessionContext.files]]
       IN /\ sessionContexts' = contexts
          /\ calls' = [calls EXCEPT ![c] = ragQuery(called, contexts)]
    /\ returned' = NoReturn
    /\ UNCHANGED <<service, localKnowledge, conversationHistory,
                   activeSessions, initPc, nextCall, appended, evicted>>

\* a faulty step, which pushes the tag chromadb also when similaritySearch
\* throws
VectorReturnTagsOnError(c, outcome) ==
    /\ c \in DOMAIN calls
    /\ calls[c].op = "processWithRAG" /\ calls[c].pc = "vector"
    /\ LET frame == calls[c] IN
       calls' = [calls EXCEPT ![c] =
                    IF outcome.threw
                    THEN ragInvoke([frame EXCEPT !.vectorThrew = TRUE],
                                   sessionContexts, frame.relevantDocs,
                                   <<"chromadb">>)
                    ELSE ragInvoke([frame EXCEPT
                                       !.vectorHits = Len(outcome.docs)],
                                   sessionContexts,
                                   frame.relevantDocs \o outcome.docs,
                                   <<"chromadb">>)]
    /\ returned' = NoReturn
    /\ UNCHANGED <<service, localKnowledge, conversationHistory,
                   sessionContexts, activeSessions, initPc, nextCall,
                   appended, evicted>>

\* similaritySearch answers: its documents are added and the tag chromadb
\* is pushed, or its error is logged; ragQuery goes on to llm.invoke
VectorReturn(c, outcome) ==
    /\ c \in DOMAIN calls
    /\ calls[c].op = "processWithRAG" /\ calls[c].pc = "vector"
    /\ LET frame == calls[c] IN
       calls' = [calls EXCEPT ![c] =
                    IF outcome.threw
                    THEN ragInvoke([frame EXCEPT !.vectorThrew = TRUE],
                                   sessionContexts, frame.relevantDocs, <<>>)
                    ELSE ragInvoke([frame EXCEPT
                                       !.vectorHits = Len(outcome.docs)],
                                   sessionContexts,
                                   frame.relevantDocs \o outcome.docs,
                                   <<"chromadb">>)]
    /\ returned' = NoReturn
    /\ UNCHANGED <<service, localKnowledge, conversationHistory,
                   sessionContexts, activeSessions, initPc, nextCall,
                   appended, evicted>>

\* llm.invoke(enhancedPrompt) answers: the result of ragQuery, or on an
\* error getBasicResponse, which invokes the llm with the basic prompt
LlmReturn(c, outcome) ==
    /\ c \in DOMAIN calls
    /\ calls[c].op = "processWithRAG" /\ calls[c].pc = "llm"
    /\ LET frame == calls[c] IN
       calls' = [calls EXCEPT ![c] =
                    IF outcome # "error"
                    THEN [frame EXCEPT
                             !.pc = "storeUser",
                             !.prompt = "", !.history = "",
                             !.context = EmptyMap,
                             !.relevantDocs = <<>>, !.sources = <<>>,
                             !.ragResult = [text |-> outcome,
                                            sources |-> frame.sources,
                                            confidence |-> 9,
                                            language |-> frame.language]]
                    ELSE IF llm
                    THEN [frame EXCEPT
                             !.pc = "retry",
                             !.invokes = 2,
                             !.llmErrors = 1,
                             !.prompt = basicPrompt(frame.message, frame.language)]
                    ELSE [frame EXCEPT
                             !.pc = "storeUser",
                             !.llmErrors = 1,
                             !.prompt = "", !.history = "",
                             !.context = EmptyMap,
                             !.relevantDocs = <<>>, !.sources = <<>>,
                             !.ragResult = fallbackResponse(frame.message,
                                                            frame.language)]]
    /\ returned' = NoReturn
    /\ UNCHANGED <<service, localKnowledge, conversationHistory,
                   sessionContexts, activeSessions, initPc, nextCall,
                   appended, evicted>>

\* llm.invoke(prompt) of getBasicResponse answers
RetryReturn(c, outcome) ==
    /\ c \in DOMAIN calls
    /\ calls[c].op = "processWithRAG" /\ calls[c].pc = "retry"
    /\ LET frame == calls[c] IN
       calls' = [calls EXCEPT ![c] =
                    [frame EXCEPT
                        !.pc = "storeUser",
                        !.llmErrors = IF outcome # "error" THEN @ ELSE @ + 1,
                        !.prompt = "", !.history = "",
                        !.context = EmptyMap,
                        !.relevantDocs = <<>>, !.sources = <<>>,
                        !.ragResult =
                            IF outcome # "error"
                            THEN [text |-> outcome,
                                  sources |-> <<"ollama_llm">>,
                                  confidence |-> 8,
                                  language |-> frame.language]
                            ELSE fallbackResponse(frame.message, frame.language)]]
    /\ returned' = NoReturn
    /\ UNCHANGED <<service, localKnowledge, conversationHistory,
                   sessionContexts, activeSessions, initPc, nextCall,
                   appended, evicted>>

\* the history variable after a turn is stored
appendedAfter(sessionId, message) ==
    set(appended, sessionId,
        (IF has(conversationHistory, sessionId) THEN appended[sessionId]
         ELSE <<>>) \o <<message>>)

\* storeConversation of the user turn (timestamp: the call, as the clock)
StoreUser(c) ==
    /\ c \in DOMAIN calls
    /\ calls[c].op = "processWithRAG" /\ calls[c].pc = "storeUser"
    /\ LET frame == calls[c]
           message == [role |-> "user", content |-> frame.message,
                       language |-> frame.language, files |-> frame.files,
                       timestamp |-> c]
       IN /\ conversationHistory' =
                 storeConversation(conversationHistory, frame.sessionId, message)
          /\ appended' = appendedAfter(frame.sessionId, message)
          /\ calls' = [calls EXCEPT ![c].pc = "storeAssistant"]
    /\ returned' = NoReturn
    /\ UNCHANGED <<service, localKnowledge, sessionContexts, activeSessions,
                   initPc, nextCall, evicted>>

\* a faulty step, which stores no assistant turn for a fallback result
StoreAssistantSkipsFallback(c) ==
    /\ c \in DOMAIN calls
    /\ calls[c].op = "processWithRAG" /\ calls[c].pc = "storeAssistant"
    /\ LET frame == calls[c]
           message == [role |-> "assistant", content |-> frame.ragResult.text,
                       language |-> frame.language, files |-> 0,
                       timestamp |-> c]
       IN /\ conversationHistory' =
                 IF frame.ragResult.sources = <<"fallback">>
                 THEN conversationHistory
                 ELSE storeConversation(conversationHistory, frame.sessionId,
                                        message)
          /\ appended' = IF frame.ragResult.sources = <<"fallback">>
                         THEN appended
                         ELSE appendedAfter(frame.sessionId, message)
          /\ calls' = [calls EXCEPT ![c].pc = "return"]
    /\ returned' = NoReturn
    /\ UNCHANGED <<service, localKnowledge, sessionContexts, activeSessions,
                   initPc, nextCall, evicted>>

\* storeConversation of the assistant turn
StoreAssistant(c) ==
    /\ c \in DOMAIN calls
    /\ calls[c].op = "processWithRAG" /\ calls[c].pc = "storeAssistant"
    /\ LET frame == calls[c]
           message == [role |-> "assistant", content |-> frame.ragResult.text,
                       language |-> frame.language, files |-> 0,
                       timestamp |-> c]
       IN /\ conversationHistory' =
                 storeConversation(conversationHistory, frame.sessionId, message)
          /\ appended' = appendedAfter(frame.sessionId, message)
          /\ calls' = [calls EXCEPT ![c].pc = "return"]
    /\ returned' = NoReturn
    /\ UNCHANGED <<service, localKnowledge, sessionContexts, activeSessions,
                   initPc, nextCall, evicted>>

\* a faulty processWithRAG, which returns the result of ragQuery as it is
ragResponseUnwrapped(frame, contexts, analyzer) == frame.ragResult

\* a faulty processWithRAG, which analyzes the sentiment whatever the option
\* analyzeSentiment says
ragResponseAlwaysAnalyzes(frame, contexts, analyzer) ==
    [text |-> frame.ragResult.text,
     sentiment |-> analyzeSentiment(analyzer, frame.language),
     intent |-> detectIntent(frame.message, frame.language),
     sources |-> frame.ragResult.sources,
     confidence |-> IF frame.ragResult.confidence # 0
                    THEN frame.ragResult.confidence ELSE 8,
     language |-> frame.language,
     sessionId |-> frame.sessionId,
     fileCount |-> IF frame.ctxLive
                   THEN Len(contexts[frame.sessionId].files)
                   ELSE Len(frame.ctxFiles)]

\* the object processWithRAG returns (lines 336-347); the sentiment was
\* computed from the message before the turns were stored, which reads and
\* writes no state of the service
ragResponse(frame, contexts, analyzer) ==
    [text |-> frame.ragResult.text,
     sentiment |-> IF frame.analyzeSentiment /\ frame.language = "en"
                   THEN analyzeSentiment(analyzer, frame.language)
                   ELSE "neutral",
     intent |-> detectIntent(frame.message, frame.language),
     sources |-> frame.ragResult.sources,
     confidence |-> IF frame.ragResult.confidence # 0
                    THEN frame.ragResult.confidence ELSE 8,
     language |-> frame.language,
     sessionId |-> frame.sessionId,
     fileCount |-> IF frame.ctxLive
                   THEN Len(contexts[frame.sessionId].files)
                   ELSE Len(frame.ctxFiles)]

\* processWithRAG returns to its caller; returned keeps the frame of the
\* call beside the value
Return(c, analyzer) ==
    /\ c \in DOMAIN calls
    /\ calls[c].op = "processWithRAG" /\ calls[c].pc = "return"
    /\ calls[c].handler = "none"
    /\ returned' = [call |-> c, op |-> "processWithRAG", frame |-> calls[c],
                    analyzer |-> analyzer,
                    value |-> ragResponse(calls[c], sessionContexts, analyzer)]
    /\ calls' = delete(calls, c)
    /\ UNCHANGED <<service, localKnowledge, conversationHistory,
                   sessionContexts, activeSessions, initPc, nextCall, appended, evicted>>

(***************************************************************************)
(* clearSession(sessionId).                                                *)
(***************************************************************************)
\* a call that holds the context object of the session keeps the object:
\* from here on it reads the files the object had when it left the Map
detached(frames, contexts, sessionId) ==
    [c \in DOMAIN frames |->
        IF frames[c].op = "processWithRAG" /\ frames[c].sessionId = sessionId
           /\ frames[c].ctxLive
        THEN [frames[c] EXCEPT !.ctxLive = FALSE,
                               !.ctxFiles = contexts[sessionId].files]
        ELSE frames[c]]

ClearSession(sessionId) ==
    /\ nextCall <= MaxCalls
    /\ sessionContexts' = delete(sessionContexts, sessionId)
    /\ conversationHistory' = delete(conversationHistory, sessionId)
    /\ appended' = delete(appended, sessionId)
    /\ evicted' = set(evicted, sessionId, nextCall)
    /\ calls' = IF has(sessionContexts, sessionId)
                THEN detached(calls, sessionContexts, sessionId) ELSE calls
    /\ returned' = [call |-> nextCall, op |-> "clearSession",
                    sessionId |-> sessionId,
                    value |-> [success |-> TRUE,
                               message |-> "Session " \o sessionId
                                           \o " cleared successfully"]]
    /\ nextCall' = nextCall + 1
    /\ UNCHANGED <<service, localKnowledge, activeSessions, initPc>>

(***************************************************************************)
(* getStatus().                                                            *)
(***************************************************************************)
\* what getStatus returns (the model name and the language list are
\* constants of the environment and of the constructor)
getStatus ==
    [isReady |-> isReady,
     hasLLM |-> llm,
     hasVectorStore |-> vectorStore /\ chromaInitialized,
     supportedLanguages |-> <<"en", "hi", "ar", "te">>,
     localKnowledgeCount |-> Len(localKnowledge),
     activeSessions |-> Cardinality(DOMAIN sessionContexts),
     conversationSessions |-> Cardinality(DOMAIN conversationHistory)]

\* getStatus is synchronous and changes nothing
GetStatus ==
    /\ returned' = [call |-> 0, op |-> "getStatus", value |-> getStatus]
    /\ UNCHANGED <<service, localKnowledge, conversationHistory,
                   sessionContexts, activeSessions, initPc, calls, nextCall,
                   appended, evicted>>

(***************************************************************************)
(* getSessionInfo(sessionId).                                              *)
(***************************************************************************)
\* what getSessionInfo returns
sessionInfo(contexts, history, sessionId) ==
    IF ~has(contexts, sessionId)
    THEN [exists |-> FALSE, message |-> "Session not found"]
    ELSE [exists |-> TRUE,
          sessionId |-> sessionId,
          language |-> IF contexts[sessionId].language = "" THEN "en"
                       ELSE contexts[sessionId].language,
          fileCount |-> Len(contexts[sessionId].files),
          messageCount |-> IF has(history, sessionId)
                           THEN Len(history[sessionId]) ELSE 0,
          lastUpdated |-> contexts[sessionId].lastUpdated]

\* getSessionInfo is synchronous and changes nothing
GetSessionInfo(sessionId) ==
    /\ returned' = [call |-> 0, op |-> "getSessionInfo",
                    sessionId |-> sessionId,
                    value |-> sessionInfo(sessionContexts, conversationHistory,
                                          sessionId)]
    /\ UNCHANGED <<service, localKnowledge, conversationHistory,
                   sessionContexts, activeSessions, initPc, calls, nextCall,
                   appended, evicted>>

(***************************************************************************)
(* addToKnowledgeBase(text, source, metadata).                             *)
(***************************************************************************)
\* what addToKnowledgeBase returns: the size of the store when it returns
knowledgeResult(knowledge) ==
    [success |-> TRUE, count |-> Len(knowledge), ids |-> <<Len(knowledge) - 1>>]

\* a faulty call, which pushes the text with the caller's metadata only and
\* leaves the defaults of the metadata to a later step
AddToKnowledgeBaseContentFirst(text, source, metadata) ==
    /\ CanStart
    /\ localKnowledge' =
           Append(localKnowledge, [content |-> text, metadata |-> metadata])
    /\ IF vectorStore /\ chromaInitialized
       THEN /\ calls' = set(calls, nextCall,
                            [op |-> "addToKnowledgeBase", pc |-> "chroma",
                             index |-> Len(localKnowledge)])
            /\ returned' = NoReturn
       ELSE /\ returned' = [call |-> nextCall, op |-> "addToKnowledgeBase",
                            index |-> Len(localKnowledge),
                            value |-> knowledgeResult(localKnowledge')]
            /\ UNCHANGED calls
    /\ nextCall' = nextCall + 1
    /\ UNCHANGED <<service, conversationHistory, sessionContexts,
                   activeSessions, initPc, appended, evicted>>

\* a direct call: the document is pushed; without a vector store the call
\* returns at once, with one it awaits the splitter and addDocuments.
\* index is a history field: where this call's document was pushed.
AddToKnowledgeBase(text, source, metadata) ==
    /\ CanStart
    /\ localKnowledge' =
           Append(localKnowledge, knowledgeDocument(text, source, metadata, nextCall))
    /\ IF vectorStore /\ chromaInitialized
       THEN /\ calls' = set(calls, nextCall,
                            [op |-> "addToKnowledgeBase", pc |-> "chroma",
                             index |-> Len(localKnowledge)])
            /\ returned' = NoReturn
       ELSE /\ returned' = [call |-> nextCall, op |-> "addToKnowledgeBase",
                            index |-> Len(localKnowledge),
                            value |-> knowledgeResult(localKnowledge')]
            /\ UNCHANGED calls
    /\ nextCall' = nextCall + 1
    /\ UNCHANGED <<service, conversationHistory, sessionContexts,
                   activeSessions, initPc, appended, evicted>>

\* vectorStore.addDocuments answers (an error is logged); the call returns
AddDocumentsReturn(c) ==
    /\ c \in DOMAIN calls
    /\ calls[c].op = "addToKnowledgeBase" /\ calls[c].pc = "chroma"
    /\ returned' = [call |-> c, op |-> "addToKnowledgeBase",
                    index |-> calls[c].index,
                    value |-> knowledgeResult(localKnowledge)]
    /\ calls' = delete(calls, c)
    /\ UNCHANGED <<service, localKnowledge, conversationHistory,
                   sessionContexts, activeSessions, initPc, nextCall, appended, evicted>>

(***************************************************************************)
(* The server: POST /api/chat, POST /api/upload, DELETE /api/session/:id.  *)
(***************************************************************************)
\* session.messages keeps the last MessagesCap messages
MessagesCap == 20

\* what fileProcessor.processFiles answers for the files of a request
FileResults == {<<InvoiceFile>>}

\* the messages of chat requests: "" is a request without message
ChatMessages == {"what was the total", ""}

\* lines 115-124 and 314-323: the session record is created if absent and
\* the files are appended to its files
storeFiles(sessions, sessionId, fileResults, now) ==
    LET created == IF has(sessions, sessionId) THEN sessions
                   ELSE set(sessions, sessionId,
                            [files |-> <<>>, messages |-> <<>>,
                             createdAt |-> now])
    IN set(created, sessionId,
           [created[sessionId] EXCEPT !.files = @ \o fileResults])

\* the index of the first file from index i on that has content, or 0
nextWithContent(fileResults, i) ==
    IF \E j \in i..Len(fileResults) : fileResults[j].content # ""
    THEN CHOOSE j \in i..Len(fileResults) :
             /\ fileResults[j].content # ""
             /\ \A k \in i..(j - 1) : fileResults[k].content = ""
    ELSE 0

\* the document a handler adds to the knowledge base for a file
fileDocument(file, sessionId, now) ==
    knowledgeDocument(file.content, "file_upload",
                      [filename |-> file.filename, type |-> file.type,
                       size |-> file.size, sessionId |-> sessionId], now)

\* the store after the documents of the files from index i on are pushed
RECURSIVE addFiles(_, _, _, _, _)
addFiles(knowledge, fileResults, i, sessionId, now) ==
    LET j == nextWithContent(fileResults, i) IN
    IF j = 0 THEN knowledge
    ELSE addFiles(Append(knowledge, fileDocument(fileResults[j], sessionId, now)),
                  fileResults, j + 1, sessionId, now)

\* a faulty loop, which adds no file to the knowledge base
addLoopSkipsFiles(frame, now) == [knowledge |-> localKnowledge, awaits |-> 0]

\* the loop over the files of a handler from index frame.i on (lines 129-138
\* and 326-335): the store when the loop is over or awaits the vector store,
\* and the index of the file whose addDocuments it awaits (0: the loop is
\* over)
addLoop(frame, now) ==
    LET j == nextWithContent(frame.fileResults, frame.i) IN
    IF vectorStore /\ chromaInitialized
    THEN IF j = 0 THEN [knowledge |-> localKnowledge, awaits |-> 0]
         ELSE [knowledge |->
                   Append(localKnowledge,
                          fileDocument(frame.fileResults[j], frame.sessionId, now)),
               awaits |-> j]
    ELSE [knowledge |-> addFiles(localKnowledge, frame.fileResults, frame.i,
                                 frame.sessionId, now),
          awaits |-> 0]

\* the message the chat handler makes for a request without message (the
\* source starts each line with a page emoji, left out here)
fileSummaryMessage(fileResults) ==
    "I uploaded these files: "
    \o join([i \in 1..Len(fileResults) |->
                fileResults[i].filename \o " (" \o fileResults[i].type \o "): "
                \o (IF fileResults[i].content # "" THEN "Content extracted"
                    ELSE "Unable to extract content")], "\n")
    \o ". Analyze them and tell me about the content."

\* the chat handler calls processWithRAG (lines 141-174): the frame of the
\* call, with the message of the request and the history field uploaded
chatRagFrame(sessions, frame, fileResults) ==
    LET sessionFiles == IF has(sessions, frame.sessionId)
                        THEN sessions[frame.sessionId].files ELSE <<>>
        call == IF frame.message # ""
                THEN ragFrame("chat", frame.message, frame.language,
                              frame.sessionId, TRUE, Len(sessionFiles),
                              fileResults)
                ELSE ragFrame("chat", fileSummaryMessage(fileResults),
                              frame.language, frame.sessionId, FALSE,
                              Len(sessionFiles), fileResults)
    IN spread(call, [request |-> frame.message, uploaded |-> frame.uploaded])

\* the frame of a handler that awaits processFiles.  uploaded is a history
\* field: the files of the session when the request arrived, if no other
\* request on the session was in flight
handlerFrame(op, message, language, sessionId) ==
    [op |-> op, pc |-> "processFiles", message |-> message,
     language |-> language, sessionId |-> sessionId,
     fileResults |-> <<>>, i |-> 1,
     uploaded |-> IF has(activeSessions, sessionId)
                     /\ \A c \in DOMAIN calls : calls[c].sessionId # sessionId
                  THEN activeSessions[sessionId].files ELSE <<>>]

\* a faulty handler, which registers the session before it validates the
\* request
ChatRequestRegistersFirst(message, language, sessionId, files) ==
    /\ CanStart
    /\ IF message = "" /\ files = 0
       THEN /\ returned' = [call |-> nextCall, op |-> "chat", status |-> 400,
                            value |-> [success |-> FALSE]]
            /\ activeSessions' =
                   IF has(activeSessions, sessionId) THEN activeSessions
                   ELSE set(activeSessions, sessionId,
                            [files |-> <<>>, messages |-> <<>>,
                             createdAt |-> nextCall])
            /\ UNCHANGED calls
       ELSE /\ returned' = NoReturn
            /\ calls' = set(calls, nextCall,
                   IF files = 0
                   THEN chatRagFrame(activeSessions,
                            handlerFrame("chat", message, language, sessionId),
                            <<>>)
                   ELSE handlerFrame("chat", message, language, sessionId))
            /\ UNCHANGED activeSessions
    /\ nextCall' = nextCall + 1
    /\ UNCHANGED <<service, localKnowledge, conversationHistory,
                   sessionContexts, initPc, appended, evicted>>

\* POST /api/chat arrives with a message and a number of files
ChatRequest(message, language, sessionId, files) ==
    /\ CanStart
    /\ IF message = "" /\ files = 0
       THEN /\ returned' = [call |-> nextCall, op |-> "chat", status |-> 400,
                            value |-> [success |-> FALSE]]
            /\ UNCHANGED calls
       ELSE /\ returned' = NoReturn
            /\ calls' = set(calls, nextCall,
                   IF files = 0
                   THEN chatRagFrame(activeSessions,
                            handlerFrame("chat", message, language, sessionId),
                            <<>>)
                   ELSE handlerFrame("chat", message, language, sessionId))
    /\ nextCall' = nextCall + 1
    /\ UNCHANGED <<service, localKnowledge, conversationHistory,
                   sessionContexts, activeSessions, initPc, appended, evicted>>

\* the chat handler after the await of the loop over its files: the await
\* of addDocuments, or the call of processWithRAG
chatAfterLoop(frame, loop, sessions) ==
    IF loop.awaits # 0
    THEN [frame EXCEPT !.pc = "chroma", !.i = loop.awaits + 1]
    ELSE chatRagFrame(sessions, frame, frame.fileResults)

\* processFiles answers the chat handler
ChatFilesProcessed(c, fileResults) ==
    /\ c \in DOMAIN calls
    /\ calls[c].op = "chat" /\ calls[c].pc = "processFiles"
    /\ LET frame == [calls[c] EXCEPT !.fileResults = fileResults]
           sessions == storeFiles(activeSessions, frame.sessionId, fileResults, c)
           loop == addLoop(frame, c)
       IN /\ activeSessions' = sessions
          /\ localKnowledge' = loop.knowledge
          /\ calls' = [calls EXCEPT ![c] = chatAfterLoop(frame, loop, sessions)]
    /\ returned' = NoReturn
    /\ UNCHANGED <<service, conversationHistory, sessionContexts, initPc,
                   nextCall, appended, evicted>>

\* addDocuments answers the chat handler (an error is logged)
ChatDocumentsAdded(c) ==
    /\ c \in DOMAIN calls
    /\ calls[c].op = "chat" /\ calls[c].pc = "chroma"
    /\ LET loop == addLoop(calls[c], c)
       IN /\ localKnowledge' = loop.knowledge
          /\ calls' = [calls EXCEPT ![c] =
                          chatAfterLoop(calls[c], loop, activeSessions)]
    /\ returned' = NoReturn
    /\ UNCHANGED <<service, conversationHistory, sessionContexts,
                   activeSessions, initPc, nextCall, appended, evicted>>

\* the files property of a response
fileInfos(fileResults) ==
    [i \in 1..Len(fileResults) |->
        [filename |-> fileResults[i].filename, type |-> fileResults[i].type,
         size |-> fileResults[i].size,
         extracted |-> fileResults[i].content # ""]]

\* the session record after lines 176-202
withMessages(sessions, frame, text, now) ==
    LET created == IF has(sessions, frame.sessionId) THEN sessions
                   ELSE set(sessions, frame.sessionId,
                            [files |-> frame.newFiles, messages |-> <<>>,
                             createdAt |-> now])
        pushed == created[frame.sessionId].messages
                  \o <<[role |-> "user", content |-> frame.request,
                        timestamp |-> now],
                       [role |-> "assistant", content |-> text,
                        timestamp |-> now]>>
    IN set(created, frame.sessionId,
           [created[frame.sessionId] EXCEPT
               !.messages = IF Len(pushed) > MessagesCap
                            THEN sliceLast(pushed, MessagesCap) ELSE pushed])

\* processWithRAG returns to the chat handler, which responds
ChatRespond(c, analyzer) ==
    /\ c \in DOMAIN calls
    /\ calls[c].op = "processWithRAG" /\ calls[c].pc = "return"
    /\ calls[c].handler = "chat"
    /\ LET frame == calls[c]
           aiResponse == ragResponse(frame, sessionContexts, analyzer)
       IN /\ activeSessions' =
                 withMessages(activeSessions, frame, aiResponse.text, c)
          /\ returned' =
                 [call |-> c, op |-> "chat", status |-> 200, frame |-> frame,
                  value |-> spread(spread([success |-> TRUE], aiResponse),
                                   [sessionId |-> frame.sessionId,
                                    files |-> fileInfos(frame.newFiles),
                                    sessionFileCount |-> frame.files])]
    /\ calls' = delete(calls, c)
    /\ UNCHANGED <<service, localKnowledge, conversationHistory,
                   sessionContexts, initPc, nextCall, appended, evicted>>

\* POST /api/upload arrives with a number of files
UploadRequest(sessionId, files) ==
    /\ CanStart
    /\ IF files = 0
       THEN /\ returned' = [call |-> nextCall, op |-> "upload", status |-> 400,
                            value |-> [success |-> FALSE]]
            /\ UNCHANGED calls
       ELSE /\ returned' = NoReturn
            /\ calls' = set(calls, nextCall,
                            handlerFrame("upload", "", "en", sessionId))
    /\ nextCall' = nextCall + 1
    /\ UNCHANGED <<service, localKnowledge, conversationHistory,
                   sessionContexts, activeSessions, initPc, appended, evicted>>

\* the upload handler after the await of the loop over its files: the await
\* of addDocuments, or the response
uploadAfterLoop(c, frame, loop) ==
    IF loop.awaits # 0
    THEN /\ calls' = [calls EXCEPT ![c] =
                         [frame EXCEPT !.pc = "chroma", !.i = loop.awaits + 1]]
         /\ returned' = NoReturn
    ELSE /\ calls' = delete(calls, c)
         /\ returned' = [call |-> c, op |-> "upload", status |-> 200,
                         value |-> [success |-> TRUE,
                                    sessionId |-> frame.sessionId,
                                    files |-> fileInfos(frame.fileResults)]]

\* processFiles answers the upload handler
UploadFilesProcessed(c, fileResults) ==
    /\ c \in DOMAIN calls
    /\ calls[c].op = "upload" /\ calls[c].pc = "processFiles"
    /\ LET frame == [calls[c] EXCEPT !.fileResults = fileResults]
           loop == addLoop(frame, c)
       IN /\ activeSessions' =
                 storeFiles(activeSessions, frame.sessionId, fileResults, c)
          /\ localKnowledge' = loop.knowledge
          /\ uploadAfterLoop(c, frame, loop)
    /\ UNCHANGED <<service, conversationHistory, sessionContexts, initPc,
                   nextCall, appended, evicted>>

\* addDocuments answers the upload handler (an error is logged)
UploadDocumentsAdded(c) ==
    /\ c \in DOMAIN calls
    /\ calls[c].op = "upload" /\ calls[c].pc = "chroma"
    /\ LET loop == addLoop(calls[c], c)
       IN /\ localKnowledge' = loop.knowledge
          /\ uploadAfterLoop(c, calls[c], loop)
    /\ UNCHANGED <<service, conversationHistory, sessionContexts,
                   activeSessions, initPc, nextCall, appended, evicted>>

\* DELETE /api/session/:sessionId
DeleteSession(sessionId) ==
    /\ CanStart
    /\ activeSessions' = delete(activeSessions, sessionId)
    /\ returned' = [call |-> nextCall, op |-> "deleteSession", status |-> 200,
                    value |-> [success |-> TRUE, sessionId |-> sessionId]]
    /\ nextCall' = nextCall + 1
    /\ UNCHANGED <<service, localKnowledge, conversationHistory,
                   sessionContexts, initPc, calls, appended, evicted>>

(***************************************************************************)
(* Specifications.                                                         *)
(***************************************************************************)
CallIds == 1..(MaxCalls + 1)

Initialize ==
    \/ InitializeStart
    \/ \E outcome \in {"ok", "notok", "error"} : HeartbeatReturn(outcome)
    \/ \E outcome \in {"ok", "error"} : CollectionReturn(outcome)
    \/ \E llmSet \in BOOLEAN : InitializeCatch(llmSet)

\* the steps of the processWithRAG calls in flight
RagSteps(vectorOutcomes, llmOutcomes) ==
    \/ \E c \in CallIds : UpdateSession(c)
    \/ \E c \in CallIds, outcome \in vectorOutcomes : VectorReturn(c, outcome)
    \/ \E c \in CallIds, outcome \in llmOutcomes : LlmReturn(c, outcome)
    \/ \E c \in CallIds, outcome \in llmOutcomes : RetryReturn(c, outcome)
    \/ \E c \in CallIds : StoreUser(c)
    \/ \E c \in CallIds : StoreAssistant(c)
    \/ \E c \in CallIds, analyzer \in SentimentOutcomes : Return(c, analyzer)

\* the state once initialize() has completed, with or without vector store
InitReady ==
    /\ isReady = TRUE
    /\ llm = TRUE
    /\ vectorStore \in BOOLEAN
    /\ chromaInitialized = vectorStore
    /\ localKnowledge = SystemKnowledge
    /\ conversationHistory = EmptyMap
    /\ sessionContexts = EmptyMap
    /\ activeSessions = EmptyMap
    /\ initPc = "done"
    /\ calls = EmptyMap
    /\ nextCall = 1
    /\ returned = NoReturn
    /\ appended = EmptyMap
    /\ evicted = EmptyMap

\* the initialized service under any order of calls on one session
Next ==
    \/ \E message \in Messages, language \in Languages,
          sessionId \in SessionIds, newFiles \in NewFileLists :
          ProcessWithRAG(message, language, sessionId, TRUE, newFiles)
    \/ RagSteps(VectorOutcomes, LlmOutcomes)
    \/ \E sessionId \in SessionIds : ClearSession(sessionId)

Spec == InitReady /\ [][Next]_vars

\* calls whose message and language vary, on the initialized service
NextQuery ==
    \/ \E message \in QueryMessages, language \in QueryLanguages,
          sessionId \in SessionIds :
          /\ nextCall <= MaxQueries
          /\ ProcessWithRAG(message, language, sessionId, TRUE, <<>>)
    \/ RagSteps(VectorOutcomes, LlmOutcomes)

\* the state once initialize() has completed through its catch block with
\* the fallback llm set: ready, and the knowledge store empty
InitDegraded ==
    /\ isReady = TRUE
    /\ llm = TRUE
    /\ vectorStore = FALSE
    /\ chromaInitialized = FALSE
    /\ localKnowledge = <<>>
    /\ conversationHistory = EmptyMap
    /\ sessionContexts = EmptyMap
    /\ activeSessions = EmptyMap
    /\ initPc = "done"
    /\ calls = EmptyMap
    /\ nextCall = 1
    /\ returned = NoReturn
    /\ appended = EmptyMap
    /\ evicted = EmptyMap

SpecQuery == (InitReady \/ InitDegraded) /\ [][NextQuery]_vars

\* calls in a language the service does not support, one after the other
NextLanguage ==
    \/ \E message \in QueryMessages, language \in UnsupportedLanguages,
          sessionId \in SessionIds :
          /\ nextCall <= MaxQueries /\ calls = EmptyMap
          /\ ProcessWithRAG(message, language, sessionId, TRUE, <<>>)
    \/ RagSteps(VectorOutcomes, LlmOutcomes)

SpecLanguage == InitReady /\ [][NextLanguage]_vars

\* calls made while the server's initialize() call is still running
NextBoot ==
    \/ Initialize
    \/ \E message \in Messages, language \in Languages,
          sessionId \in SessionIds, newFiles \in NewFileLists :
          /\ nextCall <= MaxQueries
          /\ ProcessWithRAG(message, language, sessionId, TRUE, newFiles)
    \/ RagSteps(VectorOutcomes, LlmOutcomes)

SpecBoot == Init /\ [][NextBoot]_vars

\* addToKnowledgeBase calls made while and after initialize() runs
NextKnowledge ==
    \/ Initialize
    \/ \E text \in KnowledgeTexts, source \in KnowledgeSources :
          AddToKnowledgeBase(text, source, EmptyMap)
    \/ \E c \in CallIds : AddDocumentsReturn(c)

SpecKnowledge == Init /\ [][NextKnowledge]_vars

\* the requests of the server's clients on the initialized service, each
\* answered by the llm
NextServer ==
    \/ \E message \in ChatMessages, language \in Languages,
          sessionId \in SessionIds, files \in {0, 1} :
          ChatRequest(message, language, sessionId, files)
    \/ \E c \in CallIds, fileResults \in FileResults :
          ChatFilesProcessed(c, fileResults)
    \/ \E c \in CallIds : ChatDocumentsAdded(c)
    \/ \E c \in CallIds : UpdateSession(c)
    \/ \E c \in CallIds, outcome \in VectorOutcomes : VectorReturn(c, outcome)
    \/ \E c \in CallIds : LlmReturn(c, LlmReply)
    \/ \E c \in CallIds : StoreUser(c)
    \/ \E c \in CallIds : StoreAssistant(c)
    \/ \E c \in CallIds, analyzer \in SentimentOutcomes : ChatRespond(c, analyzer)
    \/ \E sessionId \in SessionIds, files \in {0, 1} :
          UploadRequest(sessionId, files)
    \/ \E c \in CallIds, fileResults \in FileResults :
          UploadFilesProcessed(c, fileResults)
    \/ \E c \in CallIds : UploadDocumentsAdded(c)
    \/ \E sessionId \in SessionIds : DeleteSession(sessionId)

SpecServer == InitReady /\ [][NextServer]_vars

\* the steps of the processWithRAG calls in flight when the llm answers
\* every prompt
AnsweredSteps ==
    \/ \E c \in CallIds : UpdateSession(c)
    \/ \E c \in CallIds, outcome \in VectorOutcomes : VectorReturn(c, outcome)
    \/ \E c \in CallIds : LlmReturn(c, LlmReply)
    \/ \E c \in CallIds : StoreUser(c)
    \/ \E c \in CallIds : StoreAssistant(c)
    \/ \E c \in CallIds, analyzer \in SentimentOutcomes : Return(c, analyzer)

\* the queries that follow an addToKnowledgeBase call: the word "total" is
\* in one text of KnowledgeTexts and in no document of the system
RoundTripMessages == {"total", "what was the total"}

\* documents are added to the initialized service and queries, started
\* when no call is in flight, are answered
NextRoundTrip ==
    \/ \E text \in KnowledgeTexts : AddToKnowledgeBase(text, "manual", EmptyMap)
    \/ \E c \in CallIds : AddDocumentsReturn(c)
    \/ \E message \in RoundTripMessages, sessionId \in SessionIds :
          /\ calls = EmptyMap
          /\ ProcessWithRAG(message, "en", sessionId, TRUE, <<>>)
    \/ AnsweredSteps

SpecRoundTrip == InitReady /\ [][NextRoundTrip]_vars

\* the metadata of addToKnowledgeBase calls: none, or a type
KnowledgeMetadata == {EmptyMap, [type |-> "note"]}

\* documents are added while queries are in flight, and queries start while
\* addToKnowledgeBase awaits the vector store
NextAppend ==
    \/ \E text \in KnowledgeTexts, metadata \in KnowledgeMetadata :
          AddToKnowledgeBase(text, "manual", metadata)
    \/ \E c \in CallIds : AddDocumentsReturn(c)
    \/ \E sessionId \in SessionIds :
          ProcessWithRAG("total", "en", sessionId, TRUE, <<>>)
    \/ AnsweredSteps

SpecAppend == InitReady /\ [][NextAppend]_vars

\* the initialized service after one answered call on session s1 that
\* brought a list of at most MaxFiles files
InitFiles ==
    \E files \in FileLists(MaxFiles), store \in BOOLEAN :
        /\ isReady = TRUE
        /\ llm = TRUE
        /\ vectorStore = store
        /\ chromaInitialized = store
        /\ localKnowledge = SystemKnowledge
        /\ conversationHistory =
               set(EmptyMap, "s1",
                   <<[role |-> "user", content |-> "what was the total",
                      language |-> "en", files |-> Len(files), timestamp |-> 0],
                     [role |-> "assistant", content |-> LlmReply,
                      language |-> "en", files |-> 0, timestamp |-> 0]>>)
        /\ sessionContexts =
               set(EmptyMap, "s1",
                   [files |-> files, fileContext |-> fileContextOf(files),
                    lastUpdated |-> 0, language |-> "en"])
        /\ activeSessions = EmptyMap
        /\ initPc = "done"
        /\ calls = EmptyMap
        /\ nextCall = 1
        /\ returned = NoReturn
        /\ appended = conversationHistory
        /\ evicted = EmptyMap

\* queries on the session that holds the files, one after the other, with
\* and without a new file
NextFiles ==
    \/ \E message \in FileQueries, sessionId \in SessionIds,
          newFiles \in NewFileLists :
          /\ nextCall <= MaxQueries
          /\ calls = EmptyMap
          /\ ProcessWithRAG(message, "en", sessionId, TRUE, newFiles)
    \/ RagSteps(VectorOutcomes, LlmOutcomes)

SpecFiles == InitFiles /\ [][NextFiles]_vars

\* two session ids: calls, inspections and evictions on either
SessionNames == {"s1", "s2"}

\* the initialized service with sessions created, inspected and evicted
NextSessions ==
    \/ \E sessionId \in SessionNames, newFiles \in NewFileLists :
          ProcessWithRAG("what was the total", "en", sessionId, TRUE, newFiles)
    \/ AnsweredSteps
    \/ \E sessionId \in SessionNames : ClearSession(sessionId)
    \/ \E sessionId \in SessionNames : GetSessionInfo(sessionId)

SpecSessions == InitReady /\ [][NextSessions]_vars

\* the steps of a call that the event loop runs by itself once the awaited
\* promise is settled: none of them waits for the vector store or the llm
LoopSteps ==
    \/ \E c \in CallIds : UpdateSession(c)
    \/ \E c \in CallIds : StoreUser(c)
    \/ \E c \in CallIds : StoreAssistant(c)
    \/ \E c \in CallIds, analyzer \in SentimentOutcomes : Return(c, analyzer)

\* calls on the initialized service
NextWaiting ==
    \/ \E message \in QueryMessages, language \in Languages,
          sessionId \in SessionIds :
          /\ nextCall <= MaxQueries
          /\ ProcessWithRAG(message, language, sessionId, TRUE, <<>>)
    \/ RagSteps(VectorOutcomes, LlmOutcomes)

\* the event loop runs every continuation that is ready; similaritySearch
\* and llm.invoke are called without a timeout, so nothing makes the answer
\* of the vector store or of the llm (VectorReturn, LlmReturn, RetryReturn)
\* happen
SpecWaiting == InitReady /\ [][NextWaiting]_vars /\ WF_vars(LoopSteps)

\* the initialized service without vector store
InitLocal == InitReady /\ vectorStore = FALSE

\* concurrent calls on two sessions, each with two new files, the first
\* of which has no extracted text
NextIsolation ==
    \/ \E sessionId \in SessionNames :
          /\ nextCall <= MaxQueries + 1
          /\ ProcessWithRAG("what was the total", "en", sessionId, TRUE,
                            <<ScanFile, InvoiceFile>>)
    \/ \E c \in CallIds : UpdateSession(c)
    \/ \E c \in CallIds : LlmReturn(c, LlmReply)
    \/ \E c \in CallIds : StoreUser(c)
    \/ \E c \in CallIds : StoreAssistant(c)
    \/ \E c \in CallIds, analyzer \in SentimentOutcomes : Return(c, analyzer)

SpecIsolation == InitLocal /\ [][NextIsolation]_vars

\* chat requests on two sessions, one after the other, with and without a
\* file, each answered by the llm
NextShared ==
    \/ \E message \in RoundTripMessages, sessionId \in SessionNames,
          files \in {0, 1} :
          /\ calls = EmptyMap
          /\ ChatRequest(message, "en", sessionId, files)
    \/ \E c \in CallIds, fileResults \in FileResults :
          ChatFilesProcessed(c, fileResults)
    \/ \E c \in CallIds : ChatDocumentsAdded(c)
    \/ \E c \in CallIds : UpdateSession(c)
    \/ \E c \in CallIds, outcome \in VectorOutcomes : VectorReturn(c, outcome)
    \/ \E c \in CallIds : LlmReturn(c, LlmReply)
    \/ \E c \in CallIds : StoreUser(c)
    \/ \E c \in CallIds : StoreAssistant(c)
    \/ \E c \in CallIds, analyzer \in SentimentOutcomes : ChatRespond(c, analyzer)

SpecShared == InitReady /\ [][NextShared]_vars

\* chat requests with and without message and files: a request that passes
\* the validation starts when no call is in flight, one that does not may
\* arrive at any time
NextChat ==
    \/ \E message \in ChatMessages, sessionId \in SessionIds,
          files \in {0, 1} :
          /\ (message # "" \/ files # 0) => calls = EmptyMap
          /\ ChatRequest(message, "en", sessionId, files)
    \/ \E c \in CallIds, fileResults \in FileResults :
          ChatFilesProcessed(c, fileResults)
    \/ \E c \in CallIds : ChatDocumentsAdded(c)
    \/ \E c \in CallIds : UpdateSession(c)
    \/ \E c \in CallIds, outcome \in VectorOutcomes : VectorReturn(c, outcome)
    \/ \E c \in CallIds : LlmReturn(c, LlmReply)
    \/ \E c \in CallIds : StoreUser(c)
    \/ \E c \in CallIds : StoreAssistant(c)
    \/ \E c \in CallIds, analyzer \in SentimentOutcomes : ChatRespond(c, analyzer)

SpecChat == InitReady /\ [][NextChat]_vars

\* the state once the initialized service has answered one chat request on
\* session s1 that carried the message "what was the total" and the file
\* invoice.txt (the request is call 0)
InitServed ==
    \E store \in BOOLEAN :
        /\ isReady = TRUE
        /\ llm = TRUE
        /\ vectorStore = store
        /\ chromaInitialized = store
        /\ localKnowledge
               = Append(SystemKnowledge, fileDocument(InvoiceFile, "s1", 0))
        /\ conversationHistory =
               set(EmptyMap, "s1",
                   <<[role |-> "user", content |-> "what was the total",
                      language |-> "en", files |-> 1, timestamp |-> 0],
                     [role |-> "assistant", content |-> LlmReply,
                      language |-> "en", files |-> 0, timestamp |-> 0]>>)
        /\ sessionContexts =
               set(EmptyMap, "s1",
                   [files |-> <<InvoiceFile>>,
                    fileContext |-> fileContextOf(<<InvoiceFile>>),
                    lastUpdated |-> 0, language |-> "en"])
        /\ activeSessions =
               set(EmptyMap, "s1",
                   [files |-> <<InvoiceFile>>,
                    messages |-> <<[role |-> "user",
                                    content |-> "what was the total",
                                    timestamp |-> 0],
                                   [role |-> "assistant", content |-> LlmReply,
                                    timestamp |-> 0]>>,
                    createdAt |-> 0])
        /\ initPc = "done"
        /\ calls = EmptyMap
        /\ nextCall = 1
        /\ returned = NoReturn
        /\ appended = conversationHistory
        /\ evicted = EmptyMap

\* delete-session requests and chat requests without files on that session,
\* one after the other
NextDelete ==
    \/ \E sessionId \in SessionIds :
          calls = EmptyMap /\ DeleteSession(sessionId)
    \/ \E message \in QueryMessages, sessionId \in SessionIds :
          calls = EmptyMap /\ ChatRequest(message, "en", sessionId, 0)
    \/ \E c \in CallIds : UpdateSession(c)
    \/ \E c \in CallIds, outcome \in VectorOutcomes : VectorReturn(c, outcome)
    \/ \E c \in CallIds : LlmReturn(c, LlmReply)
    \/ \E c \in CallIds : StoreUser(c)
    \/ \E c \in CallIds : StoreAssistant(c)
    \/ \E c \in CallIds, analyzer \in SentimentOutcomes : ChatRespond(c, analyzer)

SpecDelete == InitServed /\ [][NextDelete]_vars

\* what getSentiment does with a message: it throws, or returns a score
\* (in hundredths): 0, the thresholds 0.2 and -0.2, and scores above and
\* below them
AnalyzerOutcomes ==
    {[threw |-> TRUE, score |-> 0]}
    \cup {[threw |-> FALSE, score |-> score] :
              score \in {-50, -21, -20, -19, 0, 19, 20, 21, 50}}

\* calls with and without sentiment analysis, in three languages, one after
\* the other
NextSentiment ==
    \/ \E message \in QueryMessages, language \in QueryLanguages,
          sessionId \in SessionIds, analyze \in BOOLEAN :
          /\ nextCall <= MaxQueries
          /\ calls = EmptyMap
          /\ ProcessWithRAG(message, language, sessionId, analyze, <<>>)
    \/ \E c \in CallIds : UpdateSession(c)
    \/ \E c \in CallIds, outcome \in VectorOutcomes : VectorReturn(c, outcome)
    \/ \E c \in CallIds : LlmReturn(c, LlmReply)
    \/ \E c \in CallIds : StoreUser(c)
    \/ \E c \in CallIds : StoreAssistant(c)
    \/ \E c \in CallIds, analyzer \in AnalyzerOutcomes : Return(c, analyzer)

SpecSentiment == InitReady /\ [][NextSentiment]_vars

\* messages with keywords of no, one or several intents, in lower and upper
\* case ("which" holds the greeting keyword "hi")
IntentMessages ==
    {"Upload this image", "hello", "Describe the PDF", "find my photo",
     "help me translate", "what was the total", "explain the math",
     "which one", "please HELP", "search the document"}

\* calls with these messages in three languages, one after the other
NextIntent ==
    \/ \E message \in IntentMessages, language \in QueryLanguages,
          sessionId \in SessionIds :
          /\ nextCall <= MaxQueries
          /\ calls = EmptyMap
          /\ ProcessWithRAG(message, language, sessionId, TRUE, <<>>)
    \/ AnsweredSteps

SpecIntent == InitReady /\ [][NextIntent]_vars

\* initialize() runs while calls are answered, one after the other, and the
\* status is read
NextStartup ==
    \/ Initialize
    \/ GetStatus
    \/ \E sessionId \in SessionIds :
          /\ nextCall <= MaxQueries
          /\ calls = EmptyMap
          /\ ProcessWithRAG("what was the total", "en", sessionId, TRUE, <<>>)
    \/ AnsweredSteps

\* the steps of initialize() are taken when they can be: the constructors
\* return or throw, and the heartbeat fetch and fromExistingCollection
\* answer or fail
SpecStartup == Init /\ [][NextStartup]_vars /\ WF_vars(Initialize)

\* the turns of a session that has served n requests, each answered by the
\* llm: the turns a behaviour of Spec stores, with times before time 1
servedTurns(n) ==
    [i \in 1..(2 * n) |->
        IF i % 2 = 1
        THEN [role |-> "user", content |-> "what was the total",
              language |-> "en", files |-> 0, timestamp |-> (i + 1) \div 2 - n]
        ELSE [role |-> "assistant", content |-> LlmReply,
              language |-> "en", files |-> 0, timestamp |-> i \div 2 - n]]

\* the initialized service, without vector store, whose session s1 has
\* served up to MaxServed requests
InitHistory ==
    \E n \in 1..MaxServed :
        /\ isReady = TRUE
        /\ llm = TRUE
        /\ vectorStore = FALSE
        /\ chromaInitialized = FALSE
        /\ localKnowledge = SystemKnowledge
        /\ conversationHistory =
               set(EmptyMap, "s1", sliceLast(servedTurns(n), HistoryCap))
        /\ sessionContexts =
               set(EmptyMap, "s1", [files |-> <<>>, fileContext |-> "",
                                    lastUpdated |-> 1 - n, language |-> "en"])
        /\ activeSessions = EmptyMap
        /\ initPc = "done"
        /\ calls = EmptyMap
        /\ nextCall = 1
        /\ returned = NoReturn
        /\ appended = set(EmptyMap, "s1", servedTurns(n))
        /\ evicted = EmptyMap

\* further requests on that session, each answered by the llm
NextHistory ==
    \/ \E message \in Messages, language \in Languages,
          sessionId \in SessionIds :
          ProcessWithRAG(message, language, sessionId, TRUE, <<>>)
    \/ \E c \in CallIds : UpdateSession(c)
    \/ \E c \in CallIds : LlmReturn(c, LlmReply)
    \/ \E c \in CallIds : StoreUser(c)
    \/ \E c \in CallIds : StoreAssistant(c)
    \/ \E c \in CallIds, analyzer \in SentimentOutcomes : Return(c, analyzer)
    \/ \E sessionId \in SessionIds : ClearSession(sessionId)

SpecHistory == InitHistory /\ [][NextHistory]_vars

(***************************************************************************)
(* Properties.                                                             *)
(***************************************************************************)
\* C1: in every state the conversation log of every session holds at most
\* 50 turns, and it is the last min(n, 50) of the n turns appended to it
\* since it was created, in the order they were appended.
C1_LogIsLastFifty ==
    \A s \in DOMAIN conversationHistory :
        LET log == conversationHistory[s]
            n == Len(appended[s])
            kept == IF n < HistoryCap THEN n ELSE HistoryCap
        IN /\ Len(log) <= HistoryCap
           /\ Len(log) = kept
           /\ \A i \in 1..kept : log[i] = appended[s][n - kept + i]

\* a log that has dropped turns and ends with a turn of a new request
C1_Evicted ==
    \E s \in DOMAIN conversationHistory :
        /\ Len(appended[s]) > HistoryCap
        /\ conversationHistory[s][HistoryCap].timestamp >= 1

\* the canned text fallbackResponse selects for a language
cannedText(query, language) ==
    IF language = "hi" THEN cannedResponses(query).hi
    ELSE IF language = "ar" THEN cannedResponses(query).ar
    ELSE IF language = "te" THEN cannedResponses(query).te
    ELSE cannedResponses(query).en

\* the result is the fallback response in the language of the request
IsFallback(value, frame) ==
    /\ value.sources = <<"fallback">>
    /\ value.confidence = 6
    /\ value.text = cannedText(frame.message, frame.language)

C3_ResultIsWellFormed ==
    returned.op = "processWithRAG" =>
        {"text", "sentiment", "intent", "sources", "confidence", "language"}
            \subseteq DOMAIN returned.value

\* a call with a new file returns from a service that was not initialized
C3_UninitializedWithFiles ==
    /\ returned.op = "processWithRAG"
    /\ ~returned.frame.wasReady
    /\ Len(returned.frame.newFiles) > 0

\* the tags of a sources list
Tags(sources) == {sources[i] : i \in 1..Len(sources)}

\* the position of the user turn of call c in a sequence of turns, or 0
userTurnOf(turns, c) ==
    IF \E i \in 1..Len(turns) : turns[i].role = "user" /\ turns[i].timestamp = c
    THEN CHOOSE i \in 1..Len(turns) :
             turns[i].role = "user" /\ turns[i].timestamp = c
    ELSE 0

\* C4: concurrent calls on one session leave what some serial execution
\* leaves: in the log every user turn that has a successor is followed by the
\* assistant turn of the same request, and a request whose user turn is
\* stored had read, as its history, every turn that precedes that turn.
C4_SerialOutcome ==
    /\ \A s \in DOMAIN conversationHistory :
           \A i \in 1..(Len(conversationHistory[s]) - 1) :
               conversationHistory[s][i].role = "user" =>
                   /\ conversationHistory[s][i + 1].role = "assistant"
                   /\ conversationHistory[s][i + 1].timestamp =
                          conversationHistory[s][i].timestamp
    /\ \A c \in DOMAIN calls :
           (calls[c].op = "processWithRAG"
               /\ calls[c].pc \in {"storeAssistant", "return"}
               /\ has(appended, calls[c].sessionId)) =>
               userTurnOf(appended[calls[c].sessionId], c)
                   <= calls[c].seenTurns + 1

\* C5: once clearSession(s) has completed, the log and the context of s hold
\* nothing of a request that started before it: every turn of the log, and
\* the last update of the context, carry the id of a later call.
C5_NothingSurvivesEviction ==
    \A s \in DOMAIN evicted :
        /\ has(conversationHistory, s) =>
               \A i \in 1..Len(conversationHistory[s]) :
                   conversationHistory[s][i].timestamp > evicted[s]
        /\ has(sessionContexts, s) => sessionContexts[s].lastUpdated > evicted[s]

\* C6: a document addToKnowledgeBase has appended keeps its index and its
\* content and metadata in every step.
C6_AppendOnly ==
    [][\A i \in 1..Len(localKnowledge) :
           localKnowledge[i].metadata.source # "system" =>
               /\ i <= Len(localKnowledge')
               /\ localKnowledge'[i] = localKnowledge[i]]_vars

\* C7: the id addToKnowledgeBase returns is the index at which the call
\* appended its document.
C7_IdIsAppendIndex ==
    returned.op = "addToKnowledgeBase" =>
        returned.value.ids = <<returned.index>>

\* retrieval and inference of the call that returned were completed
Answered ==
    /\ returned.op = "processWithRAG"
    /\ returned.frame.wasReady
    /\ returned.frame.llmErrors = 0

\* C8: in the result of a query whose retrieval and inference complete,
\* sources holds chromadb iff the vector store gave a passage, session_files
\* iff a session file gave a passage, and local_knowledge always.
C8_SourcesAreTruthful ==
    Answered =>
        /\ "chromadb" \in Tags(returned.value.sources)
               <=> returned.frame.vectorHits > 0
        /\ "session_files" \in Tags(returned.value.sources)
               <=> returned.frame.fileHits > 0
        /\ "local_knowledge" \in Tags(returned.value.sources)

\* C9: the result of a query answered by ragQuery on an initialized service
\* whose llm.invoke succeeds has local_knowledge among its sources, also
\* when no document of the store matches and when the store is empty.
C9_LocalKnowledgeAlwaysTagged ==
    Answered => "local_knowledge" \in Tags(returned.value.sources)

\* a query that matches nothing is answered over an empty knowledge store
C9_NoPassageEmptyStore ==
    /\ Answered
    /\ returned.frame.message = "hello"
    /\ returned.frame.passages = <<>>
    /\ localKnowledge = <<>>

\* a word of length > 2 of the query is a word of the text
sharesToken(query, text) ==
    \E i \in 1..Len(queryWords(query)) :
        \E j \in 1..Len(split(toLowerCase(text))) :
            queryWords(query)[i] = split(toLowerCase(text))[j]

\* C10: when a file with extracted text T was uploaded to a session, by a
\* chat request or through the upload endpoint, and a later chat request of
\* the session whose message shares a word of length > 2 with T is answered
\* by the llm, the sources of the response hold session_files and a passage
\* given to the llm contains the first 1000 characters of T.
C10_UploadedFileIsRetrieved ==
    (returned.op = "chat" /\ returned.status = 200
        /\ returned.frame.wasReady /\ returned.frame.llmErrors = 0) =>
        \A k \in 1..Len(returned.frame.uploaded) :
            LET T == returned.frame.uploaded[k].content IN
            (T # "" /\ sharesToken(returned.frame.message, T)) =>
                /\ "session_files" \in Tags(returned.value.sources)
                /\ \E i \in 1..Len(returned.frame.passages) :
                       includes(returned.frame.passages[i],
                                SubSeq(T, 1, IF Len(T) < 1000 THEN Len(T)
                                             ELSE 1000))

\* word is a word of text, and occurs in no other of the first n documents
\* of the store than document k
uniqueToken(word, k, n) ==
    /\ \E j \in 1..Len(split(toLowerCase(localKnowledge[k].content))) :
           split(toLowerCase(localKnowledge[k].content))[j] = word
    /\ \A other \in (1..n) \ {k} :
           ~includes(toLowerCase(localKnowledge[other].content), word)

\* document k was added with source "manual" before the query that
\* returned was searched, and a word of the query occurs in it alone
AddedAndAsked(k) ==
    /\ localKnowledge[k].metadata.source = "manual"
    /\ \E i \in 1..Len(queryWords(returned.frame.message)) :
           uniqueToken(queryWords(returned.frame.message)[i], k,
                       returned.frame.searched)

\* document k is among the passages of the query that returned
Retrieved(k) ==
    \E p \in 1..Len(returned.frame.passages) :
        returned.frame.passages[p] = localKnowledge[k].content

\* the documents stored before document k that contain a word of the query
earlierMatches(k) ==
    {j \in 1..(k - 1) :
        \E i \in 1..Len(queryWords(returned.frame.message)) :
            includes(toLowerCase(localKnowledge[j].content),
                     queryWords(returned.frame.message)[i])}

\* C11 as stated: a document added with source "manual" before a query,
\* one word of which (of length > 2) occurs in that document and in no
\* other, is among the passages of the query, whatever its other words.
C11_RoundTrip ==
    Answered =>
        \A k \in 1..returned.frame.searched : AddedAndAsked(k) => Retrieved(k)

\* C11 (amended): on the initialized service such a document is among the
\* passages of the query when fewer than 3 documents stored before it
\* contain a word of the query, and is not when 3 or more do.
C11_RoundTripWithinLimit ==
    Answered =>
        \A k \in 1..returned.frame.searched :
            AddedAndAsked(k) =>
                (Retrieved(k) <=> Cardinality(earlierMatches(k)) < 3)

\* a query of the one word "total" got the document added before it
C11_AddedDocumentRetrieved ==
    /\ Answered
    /\ returned.frame.message = "total"
    /\ \E k \in 1..returned.frame.searched : AddedAndAsked(k) /\ Retrieved(k)

\* the session-file passages among the documents of a call
fileDocsOf(frame) ==
    SelectSeq(frame.relevantDocs, LAMBDA d : d.metadata.source = "session_file")

\* how many words of the query of a call a text contains
matchedWords(frame, text) ==
    Cardinality({i \in 1..Len(queryWords(frame.message)) :
                    includes(toLowerCase(text), queryWords(frame.message)[i])})

\* C12: the session-file passages a query gives to the llm are in descending
\* order of matchScore, and no session file with extracted text that was
\* left out matches more words of the query than one that was retrieved.
C12_BestTwoByScore ==
    \A c \in DOMAIN calls :
        (calls[c].op = "processWithRAG" /\ calls[c].pc = "llm") =>
            LET docs == fileDocsOf(calls[c])
                files == calls[c].context.files
            IN /\ \A i \in 1..Len(docs) : \A j \in (i + 1)..Len(docs) :
                      docs[i].metadata.matchScore[1]
                          >= docs[j].metadata.matchScore[1]
               /\ \A k \in 1..Len(files) :
                      (/\ files[k].content # ""
                       /\ matchedWords(calls[c], files[k].content) > 0
                       /\ \A i \in 1..Len(docs) :
                              docs[i].metadata.filename # files[k].filename) =>
                          \A i \in 1..Len(docs) :
                              docs[i].metadata.matchScore[1]
                                  >= matchedWords(calls[c], files[k].content)

\* the query of a call has no word longer than 2
zeroTokens(frame) == Len(queryWords(frame.message)) = 0

\* the session files of a call that have extracted text
filesWithText(frame) ==
    SelectSeq(frame.context.files, LAMBDA f : f.content # "")

\* the smaller of two numbers
min(a, b) == IF a < b THEN a ELSE b

\* C13 as stated: a query with no word longer than 2 gets the first 3
\* stored documents unfiltered, a passage for each of the first 2 session
\* files with extracted text, and the vector store is searched if connected.
C13_ZeroTokenQuery ==
    \A c \in DOMAIN calls :
        (/\ calls[c].op = "processWithRAG" /\ calls[c].pc = "llm"
         /\ zeroTokens(calls[c])) =>
            /\ Len(calls[c].relevantDocs) >= min(3, calls[c].searched)
            /\ \A i \in 1..min(3, calls[c].searched) :
                   /\ calls[c].relevantDocs[i].pageContent
                          = localKnowledge[i].content
                   /\ calls[c].relevantDocs[i].metadata
                          = localKnowledge[i].metadata
            /\ Len(fileDocsOf(calls[c])) = min(2, Len(filesWithText(calls[c])))
            /\ (vectorStore /\ chromaInitialized) => calls[c].vectorAsked

\* the parts of C13 the code has: the first 3 stored documents unfiltered,
\* and the vector store searched if connected
C13_LocalAndVector ==
    \A c \in DOMAIN calls :
        (/\ calls[c].op = "processWithRAG" /\ calls[c].pc = "llm"
         /\ zeroTokens(calls[c])) =>
            /\ Len(calls[c].relevantDocs) >= min(3, calls[c].searched)
            /\ \A i \in 1..min(3, calls[c].searched) :
                   /\ calls[c].relevantDocs[i].pageContent
                          = localKnowledge[i].content
                   /\ calls[c].relevantDocs[i].metadata
                          = localKnowledge[i].metadata
            /\ (vectorStore /\ chromaInitialized) => calls[c].vectorAsked

\* the step is an inspection or an eviction of a session id that has
\* neither a context nor a log
OnUnknownId ==
    /\ returned' # returned
    /\ returned'.op \in {"getSessionInfo", "clearSession"}
    /\ ~has(sessionContexts, returned'.sessionId)
    /\ ~has(conversationHistory, returned'.sessionId)

\* the value says the session was not found, and is neither a success
\* result nor an error
IsNotFound(value) ==
    /\ "success" \in DOMAIN value => value.success # TRUE
    /\ "error" \notin DOMAIN value
    /\ \/ "exists" \in DOMAIN value /\ value.exists = FALSE
       \/ "found" \in DOMAIN value /\ value.found = FALSE

\* C14: getSessionInfo and clearSession on a session id that has no session
\* return a not-found result and leave the session contexts, the
\* conversation logs and the knowledge store as they were.
C14_UnknownIdIsNotFound ==
    [][OnUnknownId =>
          /\ IsNotFound(returned'.value)
          /\ UNCHANGED <<sessionContexts, conversationHistory, localKnowledge>>
      ]_vars

\* C15: every processWithRAG call eventually returns a result, also when
\* the llm or the vector store never answers the call made to it.
C15_EveryCallReturns ==
    \A c \in 1..MaxQueries :
        [](c \in DOMAIN calls =>
              <>(returned.op = "processWithRAG" /\ returned.call = c))

\* the context and the log of a session, each as a sequence that is empty
\* when the session has none
sessionState(contexts, history, sessionId) ==
    [context |-> IF has(contexts, sessionId) THEN <<contexts[sessionId]>>
                 ELSE <<>>,
     log |-> IF has(history, sessionId) THEN <<history[sessionId]>> ELSE <<>>]

\* the step is a step of a processWithRAG call on the session
StepOf(sessionId) ==
    \/ \E c \in DOMAIN calls :
          /\ calls[c].sessionId = sessionId
          /\ c \in DOMAIN calls' => calls'[c] # calls[c]
    \/ \E c \in DOMAIN calls' :
          c \notin DOMAIN calls /\ calls'[c].sessionId = sessionId

\* C16: a step that changes the files, the file context, the language, the
\* lastUpdated or the log of a session is a step of a call on that session:
\* no call on another session changes them, at any interleaving.
C16_OtherSessionsUntouched ==
    [][\A sessionId \in SessionNames :
          sessionState(sessionContexts', conversationHistory', sessionId)
              # sessionState(sessionContexts, conversationHistory, sessionId)
          => StepOf(sessionId) /\ ~StepOf(CHOOSE other \in SessionNames :
                                             other # sessionId)]_vars

\* a call on s2 has stored its turns while a call on s1, with a file, was
\* in flight and s1 had its context and its user turn
C16_BothSessionsServed ==
    /\ has(conversationHistory, "s2") /\ Len(conversationHistory["s2"]) = 2
    /\ has(sessionContexts, "s1") /\ Len(sessionContexts["s1"].files) = 2
    /\ has(conversationHistory, "s1") /\ Len(conversationHistory["s1"]) = 1
    /\ \E c \in DOMAIN calls :
          calls[c].sessionId = "s1" /\ calls[c].pc = "storeAssistant"

\* the passages a query on a session gets from the knowledge store and from
\* the session's files alone
localAndFilePassages(message, sessionId) ==
    pageContents(localSearch(localKnowledge, message))
        \o pageContents(IF has(sessionContexts, sessionId)
                        THEN searchInSessionFiles(message,
                                 sessionContexts[sessionId].files)
                        ELSE <<>>)

\* similaritySearch threw during the call that returned, and the llm
\* answered its prompt
VectorFailedOnly ==
    /\ Answered
    /\ returned.frame.vectorThrew

\* C17: a query during which similaritySearch fails and the llm answers
\* returns with confidence 0.9, with exactly the passages of the knowledge
\* store and of the session files, and without the tag chromadb.
C17_VectorFailureDegrades ==
    VectorFailedOnly =>
        /\ returned.value.confidence = 9
        /\ returned.value.text = LlmReply
        /\ returned.frame.passages
               = localAndFilePassages(returned.frame.message,
                                      returned.frame.sessionId)
        /\ \A i \in 1..Len(returned.value.sources) :
               returned.value.sources[i] # "chromadb"

\* such a query returned with a passage of a session file
C17_FailedWithFilePassage ==
    /\ VectorFailedOnly
    /\ returned.frame.fileHits > 0

\* the places in the log of the turns a call stored
turnsOf(log, c) == {i \in 1..Len(log) : log[i].timestamp = c}

\* C18: when a processWithRAG call returns, degraded or not, the log of its
\* session holds exactly two turns of the call: a user turn with the query
\* and, after it, an assistant turn with the text of the returned result.
C18_TwoTurnsPerCall ==
    returned.op = "processWithRAG" =>
        /\ has(conversationHistory, returned.frame.sessionId)
        /\ LET log == conversationHistory[returned.frame.sessionId]
               mine == turnsOf(log, returned.call)
           IN /\ Cardinality(mine) = 2
              /\ \E i \in mine, j \in mine :
                    /\ i < j
                    /\ log[i].role = "user"
                    /\ log[i].content = returned.frame.message
                    /\ log[j].role = "assistant"
                    /\ log[j].content = returned.value.text

\* a call made before the service was ready returned the fallback result
\* and its two turns are in the log
C18_DegradedCallStored ==
    /\ returned.op = "processWithRAG"
    /\ ~returned.frame.wasReady
    /\ returned.value.sources = <<"fallback">>
    /\ Cardinality(turnsOf(conversationHistory[returned.frame.sessionId],
                           returned.call)) = 2

\* a chat request was answered by the llm
ChatAnswered ==
    /\ returned.op = "chat" /\ returned.status = 200
    /\ returned.frame.wasReady /\ returned.frame.llmErrors = 0

\* every new file of the request with extracted text is among the files of
\* the session and in the knowledge store with source file_upload
NewFilesStored ==
    \A n \in 1..Len(returned.frame.newFiles) :
        LET file == returned.frame.newFiles[n] IN
        file.content # "" =>
            /\ has(sessionContexts, returned.frame.sessionId)
            /\ \E i \in 1..Len(sessionContexts[returned.frame.sessionId].files) :
                   sessionContexts[returned.frame.sessionId].files[i] = file
            /\ \E k \in 1..Len(localKnowledge) :
                   /\ localKnowledge[k].content = file.content
                   /\ localKnowledge[k].metadata.source = "file_upload"
                   /\ localKnowledge[k].metadata.sessionId
                          = returned.frame.sessionId

\* document k is the text of a file of another session than the one of the
\* request, was in the store when the request searched it, and shares a
\* word of length > 2 with the message
FileOfOtherSession(k) ==
    /\ localKnowledge[k].metadata.source = "file_upload"
    /\ localKnowledge[k].metadata.sessionId # returned.frame.sessionId
    /\ sharesToken(returned.frame.message, localKnowledge[k].content)

\* C19 as stated: the new files of a chat request are appended to the
\* session's files and added to the knowledge store as file_upload, and a
\* later query of another session that shares a word of length > 2 with the
\* text of such a file gets it among its passages.
C19_SharedAcrossSessions ==
    ChatAnswered =>
        /\ NewFilesStored
        /\ \A k \in 1..returned.frame.searched :
               FileOfOtherSession(k) => Retrieved(k)

\* C19 (amended): the files are stored as stated, and the later query of
\* another session gets the text when fewer than 3 documents stored before
\* it contain a word of the query, and does not when 3 or more do.
C19_SharedWithinLimit ==
    ChatAnswered =>
        /\ NewFilesStored
        /\ \A k \in 1..returned.frame.searched :
               FileOfOtherSession(k) =>
                   (Retrieved(k) <=> Cardinality(earlierMatches(k)) < 3)

\* the query "total" of session s2 got the text of a file of session s1
C19_OtherSessionGotFile ==
    /\ ChatAnswered
    /\ returned.frame.sessionId = "s2"
    /\ returned.frame.message = "total"
    /\ \E k \in 1..returned.frame.searched :
           FileOfOtherSession(k) /\ Retrieved(k)

\* the files and the file context of a session; those of a session without
\* context are empty
filesOf(contexts, sessionId) ==
    IF has(contexts, sessionId)
    THEN [files |-> contexts[sessionId].files,
          fileContext |-> contexts[sessionId].fileContext]
    ELSE [files |-> <<>>, fileContext |-> ""]

\* the header block of a file
headerBlock(file) ==
    "\n\n=== File: " \o file.filename \o " ===\n"
    \o "Type: " \o file.type \o "\n"
    \o "Size: " \o formatFileSize(file.size) \o "\n"
    \o "Content: " \o file.content \o "\n"

\* the header blocks of the files that have extracted text, in order
RECURSIVE headerBlocks(_)
headerBlocks(files) ==
    IF Len(files) = 0 THEN ""
    ELSE (IF Head(files).content # "" THEN headerBlock(Head(files)) ELSE "")
         \o headerBlocks(Tail(files))

\* the step is the update of the session context by call c
UpdatesContext(c) ==
    /\ calls[c].op = "processWithRAG" /\ calls[c].pc = "history"
    /\ c \in DOMAIN calls' /\ calls'[c].pc # "history"

\* C20: when a call updates the context of its session, the files become
\* the previous files followed by the new files of the call, and the file
\* context becomes its previous value followed by the header blocks of the
\* new files that have extracted text; no other step changes the files or
\* the file context of a session.
C20_FilesAndContextAppend ==
    [][\A sessionId \in SessionNames :
          LET before == filesOf(sessionContexts, sessionId)
              after == filesOf(sessionContexts', sessionId)
          IN /\ \A c \in DOMAIN calls :
                    (UpdatesContext(c) /\ calls[c].sessionId = sessionId) =>
                        /\ after.files = before.files \o calls[c].newFiles
                        /\ after.fileContext
                               = before.fileContext
                                     \o headerBlocks(calls[c].newFiles)
             /\ after # before =>
                    \E c \in DOMAIN calls :
                        UpdatesContext(c) /\ calls[c].sessionId = sessionId
      ]_vars

\* two calls brought the same two files to session s1: the files are kept
\* twice, and the file context has the block of the file with text twice
C20_SameFilesTwice ==
    /\ has(sessionContexts, "s1")
    /\ sessionContexts["s1"].files
           = <<ScanFile, InvoiceFile, ScanFile, InvoiceFile>>
    /\ sessionContexts["s1"].fileContext
           = headerBlock(InvoiceFile) \o headerBlock(InvoiceFile)

\* C21: when a call updates the context of a session that exists, the
\* lastUpdated of the session is unchanged if the call has no new file, and
\* is the time of the call's update if it has one.
C21_LastUpdatedFollowsFiles ==
    [][\A c \in DOMAIN calls :
          (UpdatesContext(c) /\ has(sessionContexts, calls[c].sessionId)) =>
              sessionContexts'[calls[c].sessionId].lastUpdated
                  = IF Len(calls[c].newFiles) = 0
                    THEN sessionContexts[calls[c].sessionId].lastUpdated
                    ELSE c
      ]_vars

\* a call without new file has updated the context of session s1, whose
\* lastUpdated is still the one of the call that brought its files
C21_UntouchedByEmptyList ==
    /\ \E c \in DOMAIN calls :
          /\ calls[c].op = "processWithRAG" /\ calls[c].pc # "history"
          /\ calls[c].sessionId = "s1"
          /\ Len(calls[c].newFiles) = 0
          /\ c > sessionContexts["s1"].lastUpdated
    /\ Len(sessionContexts["s1"].files) > 0

\* the sentiment of a score (in hundredths)
sentimentOf(score) ==
    IF score > 20 THEN "positive"
    ELSE IF score < -20 THEN "negative"
    ELSE "neutral"

\* C22: the sentiment of a result is the literal neutral when the language
\* is not en or analyzeSentiment is false, whatever the analyzer would say
\* of the query; when analyzeSentiment is true and the language is en it is
\* what the analyzer computes from the query (neutral if the analyzer fails).
C22_SentimentOnlyForEnglish ==
    returned.op = "processWithRAG" =>
        returned.value.sentiment
            = IF returned.frame.language # "en"
                 \/ ~returned.frame.analyzeSentiment
              THEN "neutral"
              ELSE IF returned.analyzer.threw THEN "neutral"
              ELSE sentimentOf(returned.analyzer.score)

\* a call in Hindi with analyzeSentiment true, on a message the analyzer
\* scores above 0.2, returned neutral
C22_NeutralForHindi ==
    /\ returned.op = "processWithRAG"
    /\ returned.frame.language = "hi"
    /\ returned.frame.analyzeSentiment
    /\ ~returned.analyzer.threw /\ returned.analyzer.score = 50
    /\ returned.value.sentiment = "neutral"

\* the keyword groups in the order of their priority
IntentGroups ==
    <<[intent |-> "file_upload", keywords |-> {"upload", "file", "attach"}],
      [intent |-> "image_analysis", keywords |-> {"image", "picture", "photo"}],
      [intent |-> "document_analysis", keywords |-> {"document", "pdf", "word"}],
      [intent |-> "search", keywords |-> {"search", "find"}],
      [intent |-> "analysis", keywords |-> {"analyze", "explain", "describe"}],
      [intent |-> "calculate", keywords |-> {"calculate", "math"}],
      [intent |-> "translate", keywords |-> {"translate", "language"}],
      [intent |-> "greeting", keywords |-> {"hello", "hi"}],
      [intent |-> "help", keywords |-> {"help"}]>>

\* the groups a keyword of which occurs in the lowercased text
matchingGroups(text) ==
    {g \in 1..Len(IntentGroups) :
        \E keyword \in IntentGroups[g].keywords :
            includes(toLowerCase(text), keyword)}

\* the intent of the first group that matches, or general
intentByPriority(text) ==
    IF matchingGroups(text) = {} THEN "general"
    ELSE IntentGroups[CHOOSE g \in matchingGroups(text) :
                          \A h \in matchingGroups(text) : g <= h].intent

\* C23: the intent of a result is the one of the first keyword group, in
\* the order file_upload, image_analysis, document_analysis, search,
\* analysis, calculate, translate, greeting, help, a keyword of which occurs
\* in the lowercased query, and general if there is none, whatever the
\* language; "Upload this image" gives file_upload and "hello" greeting.
C23_FirstMatchingGroup ==
    returned.op = "processWithRAG" =>
        /\ returned.value.intent = intentByPriority(returned.frame.message)
        /\ returned.frame.message = "Upload this image" =>
               returned.value.intent = "file_upload"
        /\ returned.frame.message = "hello" =>
               returned.value.intent = "greeting"

\* a call in Hindi whose message holds keywords of file_upload and of
\* image_analysis returned
C23_UploadBeforeImage ==
    /\ returned.op = "processWithRAG"
    /\ returned.frame.language = "hi"
    /\ {1, 2} \subseteq matchingGroups(returned.frame.message)
    /\ returned.value.intent = "file_upload"

\* the rank of the source of a passage: the knowledge store, the vector
\* store, the session files
sourceRank(doc) ==
    IF doc.metadata.source = "session_file" THEN 3
    ELSE IF doc.metadata.source = "chroma" THEN 2
    ELSE 1

\* how many of the documents have the rank
ranked(docs, rank) ==
    Cardinality({i \in 1..Len(docs) : sourceRank(docs[i]) = rank})

\* C24: the passages of the prompt are at most 3 passages of the knowledge
\* store, then the passages the vector store returned (asked with the raw
\* query and limit 2), then at most 2 passages of session files, in that
\* order, and the prompt holds them joined in that order.
C24_PassagesInSourceOrder ==
    \A c \in DOMAIN calls :
        (calls[c].op = "processWithRAG" /\ calls[c].pc = "llm") =>
            LET docs == calls[c].relevantDocs IN
            /\ \A i \in 1..Len(docs) : \A j \in (i + 1)..Len(docs) :
                   sourceRank(docs[i]) <= sourceRank(docs[j])
            /\ ranked(docs, 1) <= 3
            /\ ranked(docs, 2) = calls[c].vectorHits
            /\ ranked(docs, 3) <= 2
            /\ calls[c].vectorAsked =>
                   calls[c].vectorRequest
                       = <<[query |-> calls[c].message, limit |-> 2]>>
            /\ Len(docs) > 0 =>
                   includes(calls[c].prompt,
                            "CONTEXT INFORMATION:\n"
                            \o join(pageContents(docs), "\n\n"))

\* a prompt was built from passages of the three sources
C24_ThreeSources ==
    \E c \in DOMAIN calls :
        /\ calls[c].op = "processWithRAG" /\ calls[c].pc = "llm"
        /\ ranked(calls[c].relevantDocs, 1) = 3
        /\ ranked(calls[c].relevantDocs, 2) = 1
        /\ ranked(calls[c].relevantDocs, 3) = 2

\* the documents among the first n of the store whose lowercased content
\* contains a word of length > 2 of the lowercased query
matchingDocuments(query, n) ==
    {k \in 1..n :
        \E i \in 1..Len(queryWords(query)) :
            includes(toLowerCase(localKnowledge[k].content),
                     queryWords(query)[i])}

\* the first 3 of them
firstThree(query, n) ==
    {k \in matchingDocuments(query, n) :
        Cardinality({j \in matchingDocuments(query, n) : j < k}) < 3}

\* the passages of the knowledge store among the documents of a call
localDocsOf(frame) ==
    SelectSeq(frame.relevantDocs, LAMBDA d : sourceRank(d) = 1)

\* C25: for a query that has a word of length > 2, the passages of the
\* knowledge store are exactly the first 3, in the order of the store, of
\* the stored documents whose lowercased content contains such a word of
\* the lowercased query.
C25_FirstThreeMatches ==
    \A c \in DOMAIN calls :
        (/\ calls[c].op = "processWithRAG" /\ calls[c].pc = "llm"
         /\ Len(queryWords(calls[c].message)) > 0) =>
            LET first == firstThree(calls[c].message, calls[c].searched)
                local == localDocsOf(calls[c])
            IN /\ Len(local) = Cardinality(first)
               /\ \A k \in first :
                      LET i == Cardinality({j \in first : j < k}) + 1 IN
                      /\ local[i].pageContent = localKnowledge[k].content
                      /\ local[i].metadata = localKnowledge[k].metadata

\* a query matched more than 3 stored documents, an added one among them
C25_MoreThanThreeMatch ==
    \E c \in DOMAIN calls :
        /\ calls[c].op = "processWithRAG" /\ calls[c].pc = "llm"
        /\ Cardinality(matchingDocuments(calls[c].message, calls[c].searched)) > 3
        /\ Len(localDocsOf(calls[c])) = 3

\* C26: the prompt of a call holds the block of the previous conversation
\* exactly when the session had at least one stored turn when the call
\* read its history.
C26_HistoryBlockIffTurns ==
    \A c \in DOMAIN calls :
        (calls[c].op = "processWithRAG" /\ calls[c].pc = "llm") =>
            (includes(calls[c].prompt, "PREVIOUS CONVERSATION:")
                 <=> calls[c].seenTurns > 0)

\* the step ends initialize() after the vector store was found unreachable
\* (the heartbeat failed or was not ok) or without its collection
EndsWithoutVectorStore ==
    /\ initPc \in {"heartbeat", "collection"}
    /\ initPc' = "done"
    /\ ~vectorStore'

C28_UnknownCodeUsesEnglish ==
    /\ \A c \in DOMAIN calls :
           (calls[c].op = "processWithRAG"
                /\ calls[c].language \notin DOMAIN languageConfig) =>
               LET frame == calls[c]
                   code == toUpperCase(frame.language) IN
               /\ frame.pc = "llm" =>
                      /\ includes(frame.prompt,
                                  "EXCLUSIVELY in English language ("
                                      \o code \o ")!")
                      /\ includes(frame.prompt,
                                  "1. Respond ONLY in English (" \o code \o ")\n"
                                      \o "2. " \o languageConfig["en"].general)
                      /\ includes(frame.prompt, "RESPONSE IN " \o code \o ":")
               /\ frame.pc = "retry" =>
                      /\ frame.llmErrors = 1
                      /\ includes(frame.prompt, "Respond in English language only")
               /\ (frame.pc \in {"storeUser", "storeAssistant", "return"}
                       /\ frame.ragResult.sources = <<"fallback">>) =>
                      frame.ragResult.text = cannedResponses(frame.message)["en"]
    /\ (returned.op = "processWithRAG"
            /\ returned.frame.language \notin DOMAIN languageConfig) =>
           /\ returned.value.language = returned.frame.language
           /\ returned.value.sources = <<"fallback">> =>
                  returned.value.text
                      = cannedResponses(returned.frame.message)["en"]

\* the same for the codes that name no inherited property
C28_UnknownCodeNotInherited ==
    \A c \in DOMAIN calls :
        (calls[c].op = "processWithRAG"
             /\ calls[c].language \notin DOMAIN languageConfig
             /\ calls[c].language \notin DOMAIN InheritedProperties) =>
            LET frame == calls[c]
                code == toUpperCase(frame.language) IN
            /\ frame.pc = "llm" =>
                   /\ includes(frame.prompt,
                               "EXCLUSIVELY in English language ("
                                   \o code \o ")!")
                   /\ includes(frame.prompt,
                               "1. Respond ONLY in English (" \o code \o ")\n"
                                   \o "2. " \o languageConfig["en"].general)
                   /\ includes(frame.prompt, "RESPONSE IN " \o code \o ":")
            /\ frame.pc = "retry" =>
                   /\ frame.llmErrors = 1
                   /\ includes(frame.prompt, "Respond in English language only")
            /\ (frame.pc \in {"storeUser", "storeAssistant", "return"}
                    /\ frame.ragResult.sources = <<"fallback">>) =>
                   /\ frame.ragResult.text = cannedResponses(frame.message)["en"]
                   /\ frame.ragResult.language = frame.language

\* the metadata of a document of the store is complete: the system documents
\* carry source, type and languages, the added ones a timestamp as well
completeDocument(knowledge, i) ==
    /\ DOMAIN knowledge[i] = {"content", "metadata"}
    /\ {"source", "type", "languages"} \subseteq DOMAIN knowledge[i].metadata
    /\ i > Len(SystemKnowledge) =>
           \E text \in KnowledgeTexts, metadata \in KnowledgeMetadata,
              now \in CallIds :
              knowledge[i] = knowledgeDocument(text, "manual", metadata, now)

\* the passages a call holds that were read from the knowledge store
localPassages(frame) ==
    SelectSeq(frame.relevantDocs,
              LAMBDA d : "source" \notin DOMAIN d.metadata
                         \/ d.metadata.source \in {"system", "manual"})

\* C29: every document of the knowledge store is complete in every state,
\* and every passage a ragQuery holds from the store is the content of a
\* stored document together with that document's complete metadata, whatever
\* addToKnowledgeBase calls run at the same time.
C29_AppendIsAtomic ==
    /\ \A i \in 1..Len(localKnowledge) : completeDocument(localKnowledge, i)
    /\ \A c \in DOMAIN calls :
           (calls[c].op = "processWithRAG"
                /\ calls[c].pc \in {"vector", "llm"}) =>
               \A k \in 1..Len(localPassages(calls[c])) :
                   \E i \in 1..Len(localKnowledge) :
                       /\ completeDocument(localKnowledge, i)
                       /\ localPassages(calls[c])[k]
                              = [pageContent |-> localKnowledge[i].content,
                                 metadata |-> localKnowledge[i].metadata]

\* a ragQuery that searched the store while an addToKnowledgeBase call was
\* awaiting the vector store holds the document that call pushed
C29_ReaderDuringAppend ==
    \E c \in DOMAIN calls, a \in DOMAIN calls :
        /\ calls[a].op = "addToKnowledgeBase" /\ calls[a].pc = "chroma"
        /\ calls[c].op = "processWithRAG" /\ calls[c].pc \in {"vector", "llm"}
        /\ calls[c].searched > calls[a].index
        /\ \E k \in 1..Len(calls[c].relevantDocs) :
               calls[c].relevantDocs[k].pageContent
                   = localKnowledge[calls[a].index + 1].content

\* the step answers a chat request with status 400
RejectsChat ==
    /\ returned'.op = "chat"
    /\ returned'.call = nextCall
    /\ returned'.status = 400

\* C30: a chat request with neither message nor files is answered with
\* status 400 by a step that changes no session of the server or of the
\* service, no conversation log and no document of the knowledge store, and
\* starts no call (so that neither the llm nor the vector store is invoked);
\* every request the server does process has a message or files.
C30_EmptyRequestRejected ==
    /\ [][RejectsChat =>
             UNCHANGED <<activeSessions, sessionContexts, conversationHistory,
                         localKnowledge, appended, evicted, calls, service>>]_vars
    /\ [][(nextCall' = nextCall + 1 /\ ~RejectsChat) =>
             /\ nextCall \in DOMAIN calls'
             /\ \/ calls'[nextCall].pc = "processFiles"
                \/ calls'[nextCall].request # ""]_vars
    /\ [](\A c \in DOMAIN calls :
              (calls[c].op = "processWithRAG" /\ calls[c].handler = "chat") =>
                  (calls[c].request # "" \/ Len(calls[c].newFiles) > 0))

\* a request was rejected while another one was being processed
C30_RejectedWhileProcessing ==
    /\ returned.op = "chat" /\ returned.call = nextCall - 1
    /\ returned.status = 400
    /\ \E c \in DOMAIN calls : calls[c].pc \in {"vector", "llm"}

\* the step in which call c reaches ragQuery returns the canned fallback
\* result at once: no llm.invoke, no similaritySearch
TakesFallbackBranch(c) ==
    /\ calls'[c].pc = "storeUser"
    /\ ~calls'[c].wasReady
    /\ calls'[c].ragResult
           = fallbackResponse(calls[c].message, calls[c].language)
    /\ calls'[c].ragResult.sources = <<"fallback">>
    /\ calls'[c].ragResult.confidence = 6
    /\ calls'[c].invokes = 0
    /\ ~calls'[c].vectorAsked

\* C31: a call that reaches ragQuery before initialize() has completed, or
\* when no llm was constructed, gets the canned fallback result (sources
\* ["fallback"], confidence 0.6) without llm.invoke and without
\* similaritySearch, and its final result carries these values; a call that
\* reaches ragQuery once initialize() has completed with an llm does not
\* take this branch.
C31_FallbackUnlessInitializedWithLlm ==
    /\ [][\A c \in DOMAIN calls :
              UpdatesContext(c) =>
                  IF initPc = "done" /\ llm
                  THEN calls'[c].wasReady
                       /\ calls'[c].pc \in {"vector", "llm", "retry"}
                  ELSE TakesFallbackBranch(c)]_vars
    /\ []((returned.op = "processWithRAG" /\ ~returned.frame.wasReady) =>
              /\ returned.value.sources = <<"fallback">>
              /\ returned.value.confidence = 6
              /\ returned.frame.invokes = 0
              /\ ~returned.frame.vectorAsked)

\* a call answered with the fallback result of the branch while initialize()
\* was awaiting the vector store
C31_AnsweredBeforeReady ==
    /\ returned.op = "processWithRAG"
    /\ ~returned.frame.wasReady
    /\ returned.value.sources = <<"fallback">>
    /\ initPc \in {"heartbeat", "collection"}

\* C31 as stated: once initialize() has completed, no call takes the
\* fallback branch of ragQuery.
C31_NoFallbackOnceInitialized ==
    [][\A c \in DOMAIN calls :
          (UpdatesContext(c) /\ initPc = "done") => calls'[c].wasReady]_vars

\* C32: for language en with sentiment analysis asked for, the sentiment of
\* the result is positive exactly when the analyzer's score is above 0.2,
\* negative exactly when it is below -0.2, and neutral otherwise, the scores
\* 0.2 and -0.2 included; it is neutral when the analyzer throws.
C32_SentimentThresholds ==
    (returned.op = "processWithRAG" /\ returned.frame.analyzeSentiment
         /\ returned.frame.language = "en") =>
        LET score == returned.analyzer.score
            sentiment == returned.value.sentiment IN
        IF returned.analyzer.threw THEN sentiment = "neutral"
        ELSE /\ sentiment \in {"positive", "negative", "neutral"}
             /\ sentiment = "positive" <=> score > 20
             /\ sentiment = "negative" <=> score < -20
             /\ sentiment = "neutral" <=> (-20 <= score /\ score <= 20)

\* a score of exactly 0.2 gave neutral
C32_NeutralAtThreshold ==
    /\ returned.op = "processWithRAG" /\ returned.frame.analyzeSentiment
    /\ returned.frame.language = "en"
    /\ ~returned.analyzer.threw /\ returned.analyzer.score = 20
    /\ returned.value.sentiment = "neutral"

\* the sources and the confidence of a result have the shape that the
\* outcomes of the call's llm.invoke calls determine
shapeFollowsInvokes(frame, value) ==
    /\ frame.invokes <= 2
    /\ frame.llmErrors <= frame.invokes
    /\ IF ~frame.wasReady
       THEN /\ value.sources = <<"fallback">> /\ value.confidence = 6
            /\ frame.invokes = 0
       ELSE IF frame.llmErrors = 0
       THEN /\ \E i \in 1..Len(value.sources) :
                   value.sources[i] = "local_knowledge"
            /\ \A i \in 1..Len(value.sources) :
                   value.sources[i]
                       \in {"chromadb", "session_files", "local_knowledge"}
            /\ value.confidence = 9
            /\ frame.invokes = 1
       ELSE IF frame.llmErrors = 1
       THEN /\ value.sources = <<"ollama_llm">> /\ value.confidence = 8
            /\ frame.invokes = 2
       ELSE /\ value.sources = <<"fallback">> /\ value.confidence = 6
            /\ frame.invokes = 2

\* C33: every result of processWithRAG has the retrieval tags, with
\* local_knowledge among them, and confidence 0.9 when the first llm.invoke
\* succeeded, ["ollama_llm"] and 0.8 when the first failed and the one of
\* getBasicResponse succeeded, ["fallback"] and 0.6 when both failed or the
\* service was not ready; the llm is invoked at most twice for a call.
C33_ShapeFollowsInvokes ==
    returned.op = "processWithRAG" =>
        shapeFollowsInvokes(returned.frame, returned.value)

\* the same for the calls whose language names no inherited property
C33_ShapeNotInherited ==
    (returned.op = "processWithRAG"
         /\ returned.frame.language \notin DOMAIN InheritedProperties) =>
        shapeFollowsInvokes(returned.frame, returned.value)

\* the files a registry holds for a session: none when it has no entry
filesIn(registry, sessionId) ==
    IF has(registry, sessionId) THEN registry[sessionId].files ELSE <<>>

\* C34: when no request is being processed, the server's activeSessions and
\* the service's sessionContexts hold the same files in the same order for
\* every session id, and every chat response has fileCount equal to
\* sessionFileCount.
C34_RegistriesAgree ==
    /\ calls = EmptyMap =>
           \A sessionId \in SessionIds :
               filesIn(activeSessions, sessionId)
                   = filesIn(sessionContexts, sessionId)
    /\ (returned.op = "chat" /\ returned.status = 200) =>
           returned.value.fileCount = returned.value.sessionFileCount

\* C34 for the chat responses alone
C34_CountsAgree ==
    (returned.op = "chat" /\ returned.status = 200) =>
        returned.value.fileCount = returned.value.sessionFileCount

\* C35: a chat request that starts after the delete-session request for its
\* session has completed (the server holds no entry for the session) is
\* answered from a fresh session: the history it reads is that of a session
\* without turns, and its prompt holds no file context and no notice of
\* uploaded files.
C35_FreshAfterDelete ==
    \A c \in DOMAIN calls :
        (calls[c].op = "processWithRAG" /\ calls[c].handler = "chat"
             /\ calls[c].pc = "llm"
             /\ ~has(activeSessions, calls[c].sessionId)) =>
            /\ calls[c].seenTurns = 0
            /\ calls[c].context.history
                   = "No previous conversation in this session."
            /\ calls[c].context.fileContext = ""
            /\ calls[c].context.files = <<>>
            /\ ~includes(calls[c].prompt, "UPLOADED FILES INFORMATION:")
            /\ ~includes(calls[c].prompt, "CURRENT SESSION HAS")
            /\ ~includes(calls[c].prompt, LlmReply)

\* the history text of the last min(HistoryLimit, n) of the first n turns
\* appended to a log
historyOfFirst(turns, n) ==
    LET k == IF n < HistoryLimit THEN n ELSE HistoryLimit IN
    IF n = 0 THEN "No previous conversation in this session."
    ELSE join([i \in 1..k |-> historyLine(turns[n - k + i])], "\n")

\* the session of call c was not cleared since the call started
NotClearedSince(c) ==
    /\ has(appended, calls[c].sessionId)
    /\ has(evicted, calls[c].sessionId) => evicted[calls[c].sessionId] < c

\* C36: the history in the prompt of a call is the text of the last
\* min(10, n) turns, in log order, of the n turns the session's log had
\* received when the call started; the turns other calls stored since are
\* not in it.
C36_HistoryAsOfStart ==
    \A c \in DOMAIN calls :
        (calls[c].op = "processWithRAG" /\ calls[c].pc = "llm"
             /\ NotClearedSince(c)) =>
            LET frame == calls[c]
                expected == historyOfFirst(appended[frame.sessionId],
                                           frame.seenTurns) IN
            /\ frame.seenTurns <= Len(appended[frame.sessionId])
            /\ frame.context.history = expected
            /\ includes(frame.prompt,
                        "\n\nPREVIOUS CONVERSATION:\n" \o expected
                            \o "\n\nUSER QUERY: ")

\* a call is at llm.invoke while its session's log, of more than ten turns
\* when the call started, has received the turns of another call since
C36_TurnsStoredSince ==
    \E c \in DOMAIN calls :
        /\ calls[c].op = "processWithRAG" /\ calls[c].pc = "llm"
        /\ NotClearedSince(c)
        /\ calls[c].seenTurns > HistoryLimit
        /\ Len(appended[calls[c].sessionId]) > calls[c].seenTurns

\* C37: every session id that has a conversation log has a session context,
\* and getSessionInfo reports no session that holds stored turns as not
\* found.
C37_LogsHaveContexts ==
    /\ \A sessionId \in SessionNames :
           has(conversationHistory, sessionId) => has(sessionContexts, sessionId)
    /\ (returned.op = "getSessionInfo"
            /\ has(conversationHistory, returned.sessionId)) =>
           returned.value.exists
====
